---------------------------- MODULE Spec2Model ----------------------------
(***************************************************************************)
(* NutriChat nutrition calculator (src/logic.py) and the enumerations and  *)
(* validators it shares with sign-up (src/utils.py).                       *)
(*                                                                         *)
(* A caller invokes one function of logic.py with arguments drawn from the *)
(* bounded input sets below, observes the value returned or the exception  *)
(* raised, and returns to idle.                                            *)
(*                                                                         *)
(* Strings are sequences of one-character strings, so that str.lower() is  *)
(* computed character by character.  Numbers are integers; a decimal       *)
(* literal of the source is the rational n/d together with the error of    *)
(* its IEEE-754 double, so that round(k * literal) is computed as CPython  *)
(* computes it, ties included.                                             *)
(***************************************************************************)
EXTENDS Integers, Sequences, FiniteSets, TLC

VARIABLES pc, op, args, ret, exc, callers, users, daily_logs, session_state

vars == <<pc, op, args, ret, exc, callers, users, daily_logs, session_state>>

-----------------------------------------------------------------------------
(* Strings and str.lower()                                                 *)

UpperCase == <<"A","B","C","D","E","F","G","H","I","J","K","L","M",
               "N","O","P","Q","R","S","T","U","V","W","X","Y","Z">>

LowerCase == <<"a","b","c","d","e","f","g","h","i","j","k","l","m",
               "n","o","p","q","r","s","t","u","v","w","x","y","z">>

lower_char(c) ==
    IF \E i \in 1..26 : UpperCase[i] = c
    THEN LowerCase[CHOOSE i \in 1..26 : UpperCase[i] = c]
    ELSE c

lower(s) == [i \in 1..Len(s) |-> lower_char(s[i])]

\* string literals of the source
male              == <<"m","a","l","e">>
female            == <<"f","e","m","a","l","e">>
other             == <<"o","t","h","e","r">>
sedentary         == <<"s","e","d","e","n","t","a","r","y">>
light             == <<"l","i","g","h","t">>
moderate          == <<"m","o","d","e","r","a","t","e">>
active            == <<"a","c","t","i","v","e">>
very_active       == <<"v","e","r","y","_","a","c","t","i","v","e">>
weight_loss       == <<"w","e","i","g","h","t","_","l","o","s","s">>
maintenance       == <<"m","a","i","n","t","e","n","a","n","c","e">>
muscle_gain       == <<"m","u","s","c","l","e","_","g","a","i","n">>
general_health    == <<"g","e","n","e","r","a","l","_","h","e","a","l","t","h">>
lose_weight       == <<"l","o","s","e","_","w","e","i","g","h","t">>
maintain          == <<"m","a","i","n","t","a","i","n">>
gain_muscle       == <<"g","a","i","n","_","m","u","s","c","l","e">>
improve_endurance == <<"i","m","p","r","o","v","e","_","e","n","d","u","r","a","n","c","e">>

-----------------------------------------------------------------------------
(* Numbers                                                                 *)

Abs(x) == IF x < 0 THEN -x ELSE x

RECURSIVE Pow2(_)
Pow2(e) == IF e <= 0 THEN 1 ELSE 2 * Pow2(e - 1)

RECURSIVE Log2Floor(_)
Log2Floor(v) == IF v < 2 THEN 0 ELSE 1 + Log2Floor(v \div 2)

\* Python's round() of the rational num/den (den > 0): to the nearest
\* integer, an exact half to the even one.
round(num, den) ==
    LET q == num \div den
        rem == num % den
    IN  IF 2 * rem < den THEN q
        ELSE IF 2 * rem > den THEN q + 1
        ELSE IF q % 2 = 0 THEN q ELSE q + 1

\* A decimal literal n/d of the source as the double the interpreter holds:
\* the double is n/d + r / (d * 2^(52+s)), where 2^(-s) <= n/d < 2^(1-s).
Literal(n, d, s, r) == [n |-> n, d |-> d, s |-> s, r |-> r]

\* round(k * c) for an integer k and a literal c.  The double product is the
\* double nearest to k*n/d + k*r/(d*2^(52+s)).  Off a tie of k*n/d the error
\* is too small to change the rounding.  On a tie t = x + 1/2 (a double, with
\* 2^E <= |t| < 2^(E+1)) the product is t itself when the error is at most
\* half the spacing 2^(E-52) of the doubles around t, and the next double
\* above or below t otherwise.
round_product(k, c) ==
    LET num == k * c.n
        x   == num \div c.d
        E   == Log2Floor(Abs(2 * x + 1)) - 1
    IN  IF 2 * (num % c.d) # c.d THEN round(num, c.d)
        ELSE IF 4 * Abs(k * c.r) > c.d * Pow2(E + c.s + 1)
             THEN (IF k * c.r > 0 THEN x + 1 ELSE x)
             ELSE round(num, c.d)

\* dict.get(key, default)
get(dict, key, default) == IF key \in DOMAIN dict THEN dict[key] ELSE default

-----------------------------------------------------------------------------
(* src/utils.py                                                            *)

ACTIVITY_LEVELS == {sedentary, light, moderate, active, very_active}

\* GOALS with the keys the tables of logic.py use
GOALS_of_logic == {lose_weight, maintain, gain_muscle, improve_endurance}

GOALS == {weight_loss, maintenance, muscle_gain, general_health}

validate_age(age) == 13 <= age /\ age <= 120

validate_height(height) == 20 <= height /\ height <= 100

validate_weight(weight) == 50 <= weight /\ weight <= 661

validate_sex(sex) == lower(sex) \in {male, female, other}

validate_activity_level(activity_level) == lower(activity_level) \in ACTIVITY_LEVELS

validate_goal(goal) == lower(goal) \in GOALS

-----------------------------------------------------------------------------
(* src/logic.py                                                            *)

\* bmr_value with the age term added instead of subtracted
bmr_value_age_added(weight_lbs, height_inches, age, offset) ==
    round(weight_lbs * 453592 + height_inches * 1587500
            + (offset + 5 * age) * 100000, 100000)

\* round((10 * weight_kg) + (6.25 * height_cm) - (5 * age) + offset) with
\* weight_kg = weight_lbs * 0.453592 and height_cm = height_inches * 2.54,
\* over the common denominator 100000.  For whole pounds 0 < |weight_lbs| <
\* 3125 the sum is never on a tie, so the double sum rounds as the exact one.
bmr_value(weight_lbs, height_inches, age, offset) ==
    round(weight_lbs * 453592 + height_inches * 1587500
            + (offset - 5 * age) * 100000, 100000)

\* calculate_bmr comparing the sex as given, without lower()
calculate_bmr_case_sensitive(weight_lbs, height_inches, age, sex) ==
    IF sex = male
    THEN bmr_value(weight_lbs, height_inches, age, 5)
    ELSE bmr_value(weight_lbs, height_inches, age, -161)

calculate_bmr(weight_lbs, height_inches, age, sex) ==
    IF lower(sex) = male
    THEN bmr_value(weight_lbs, height_inches, age, 5)
    ELSE bmr_value(weight_lbs, height_inches, age, -161)

activity_multipliers ==
    (sedentary   :> Literal(12, 10, 0, -2)) @@
    (light       :> Literal(1375, 1000, 0, 0)) @@
    (moderate    :> Literal(155, 100, 0, 20)) @@
    (active      :> Literal(1725, 1000, 0, 400)) @@
    (very_active :> Literal(19, 10, 0, -4))

\* calculate_tdee with 1.0 for a level that is no key of the table
calculate_tdee_default_one(bmr, activity_level) ==
    LET multiplier == get(activity_multipliers, lower(activity_level),
                          Literal(10, 10, 0, 0))
    IN  round_product(bmr, multiplier)

calculate_tdee(bmr, activity_level) ==
    LET multiplier == get(activity_multipliers, lower(activity_level),
                          Literal(12, 10, 0, -2))
    IN  round_product(bmr, multiplier)

\* goal_adjustments with the surplus of gain_muscle copied to improve_endurance
goal_adjustments_copied_row ==
    (lose_weight       :> Literal(85, 100, 1, -20)) @@
    (maintain          :> Literal(10, 10, 0, 0)) @@
    (gain_muscle       :> Literal(11, 10, 0, 4)) @@
    (improve_endurance :> Literal(11, 10, 0, 4))

goal_adjustments ==
    (lose_weight       :> Literal(85, 100, 1, -20)) @@
    (maintain          :> Literal(10, 10, 0, 0)) @@
    (gain_muscle       :> Literal(11, 10, 0, 4)) @@
    (improve_endurance :> Literal(105, 100, 0, 20))

calculate_target_calories(tdee, goal) ==
    LET adjustment == get(goal_adjustments, lower(goal), Literal(10, 10, 0, 0))
    IN  round_product(tdee, adjustment)

\* grams of protein per kg of bodyweight, in tenths
protein_multipliers ==
    (lose_weight       :> 22) @@
    (maintain          :> 18) @@
    (gain_muscle       :> 20) @@
    (improve_endurance :> 16)

\* share of the calories that goes to fat, in hundredths
fat_percentages ==
    (lose_weight       :> 25) @@
    (maintain          :> 30) @@
    (gain_muscle       :> 25) @@
    (improve_endurance :> 25)

\* round(weight_kg * protein_multiplier), weight_kg = weight_lbs * 0.453592
\* = weight_lbs * 56699 / 125000.  For whole pounds below 312500 the product
\* is never on a tie.
macro_protein_grams(goal, weight_lbs) ==
    LET protein_multiplier == get(protein_multipliers, lower(goal), 18)
    IN  round(weight_lbs * 56699 * protein_multiplier, 1250000)

\* round(fat_calories / 9), fat_calories = target_calories * fat_percentage.
\* Whenever the quotient is on a tie, fat_calories is a multiple of 4.5 that
\* the double product and the double quotient hold exactly.
macro_fat_grams(target_calories, goal) ==
    LET fat_percentage == get(fat_percentages, lower(goal), 30)
    IN  round(target_calories * fat_percentage, 900)

\* macro_carb_grams with the calories of the rounded fat grams subtracted
macro_carb_grams_rounded_fat(target_calories, goal, weight_lbs) ==
    LET protein_calories == macro_protein_grams(goal, weight_lbs) * 4
        fat_calories     == macro_fat_grams(target_calories, goal) * 9
    IN  round(target_calories - protein_calories - fat_calories, 4)

\* macro_carb_grams clamped at zero
macro_carb_grams_clamped(target_calories, goal, weight_lbs) ==
    LET fat_percentage   == get(fat_percentages, lower(goal), 30)
        protein_calories == macro_protein_grams(goal, weight_lbs) * 4
        carb_grams       == round(100 * target_calories - 100 * protein_calories
                                    - target_calories * fat_percentage, 400)
    IN  IF carb_grams < 0 THEN 0 ELSE carb_grams

\* macro_carb_grams with the protein grams taken for the protein calories
macro_carb_grams_no_kcal(target_calories, goal, weight_lbs) ==
    LET fat_percentage   == get(fat_percentages, lower(goal), 30)
        protein_calories == macro_protein_grams(goal, weight_lbs)
    IN  round(100 * target_calories - 100 * protein_calories
                - target_calories * fat_percentage, 400)

\* round(carb_calories / 4), carb_calories = target_calories -
\* protein_calories - fat_calories, with the protein calories of the rounded
\* protein grams and the fat calories before rounding.
macro_carb_grams(target_calories, goal, weight_lbs) ==
    LET fat_percentage   == get(fat_percentages, lower(goal), 30)
        protein_calories == macro_protein_grams(goal, weight_lbs) * 4
    IN  round(100 * target_calories - 100 * protein_calories
                - target_calories * fat_percentage, 400)

\* (protein_grams, carb_grams, fat_grams)
calculate_macronutrients(target_calories, goal, weight_lbs) ==
    << macro_protein_grams(goal, weight_lbs),
       macro_carb_grams(target_calories, goal, weight_lbs),
       macro_fat_grams(target_calories, goal) >>

\* base_multipliers with 0.75 for very_active
base_multipliers_very_active_075 ==
    (sedentary   :> Literal(5, 10, 1, 0)) @@
    (light       :> Literal(55, 100, 1, 40)) @@
    (moderate    :> Literal(6, 10, 1, -2)) @@
    (active      :> Literal(65, 100, 1, 20)) @@
    (very_active :> Literal(75, 100, 1, 0))

base_multipliers ==
    (sedentary   :> Literal(5, 10, 1, 0)) @@
    (light       :> Literal(55, 100, 1, 40)) @@
    (moderate    :> Literal(6, 10, 1, -2)) @@
    (active      :> Literal(65, 100, 1, 20)) @@
    (very_active :> Literal(7, 10, 1, -4))

calculate_water_needs(weight_lbs, activity_level) ==
    LET multiplier == get(base_multipliers, lower(activity_level),
                          Literal(5, 10, 1, 0))
    IN  round_product(weight_lbs, multiplier)

\* the ValueError messages of calculate_nutrition_profile
NoError       == "no error"
ErrPositive   == "Weight, height, and age must be positive numbers"
ErrSex        == "Sex must be 'male' or 'female'"
ErrActivity   == "Activity level must be one of: ..."
ErrGoal       == "Goal must be one of: ..."

\* profile_error with any() for all(): one positive number suffices
profile_error_any(weight_lbs, height_inches, age, sex, activity_level, goal) ==
    IF ~(weight_lbs > 0 \/ height_inches > 0 \/ age > 0) THEN ErrPositive
    ELSE IF lower(sex) \notin {male, female} THEN ErrSex
    ELSE IF lower(activity_level) \notin ACTIVITY_LEVELS THEN ErrActivity
    ELSE IF lower(goal) \notin GOALS THEN ErrGoal
    ELSE NoError

\* profile_error with the sexes sign-up accepts
profile_error_sex_other(weight_lbs, height_inches, age, sex, activity_level, goal) ==
    IF ~(weight_lbs > 0 /\ height_inches > 0 /\ age > 0) THEN ErrPositive
    ELSE IF ~validate_sex(sex) THEN ErrSex
    ELSE IF lower(activity_level) \notin ACTIVITY_LEVELS THEN ErrActivity
    ELSE IF lower(goal) \notin GOALS THEN ErrGoal
    ELSE NoError

\* profile_error with the goal checked against the keys of goal_adjustments
profile_error_goal_keys(weight_lbs, height_inches, age, sex, activity_level, goal) ==
    IF ~(weight_lbs > 0 /\ height_inches > 0 /\ age > 0) THEN ErrPositive
    ELSE IF lower(sex) \notin {male, female} THEN ErrSex
    ELSE IF lower(activity_level) \notin ACTIVITY_LEVELS THEN ErrActivity
    ELSE IF lower(goal) \notin DOMAIN goal_adjustments THEN ErrGoal
    ELSE NoError

\* profile_error with the age checked as sign-up checks it
profile_error_age_range(weight_lbs, height_inches, age, sex, activity_level, goal) ==
    IF ~(weight_lbs > 0 /\ height_inches > 0 /\ validate_age(age)) THEN ErrPositive
    ELSE IF lower(sex) \notin {male, female} THEN ErrSex
    ELSE IF lower(activity_level) \notin ACTIVITY_LEVELS THEN ErrActivity
    ELSE IF lower(goal) \notin GOALS THEN ErrGoal
    ELSE NoError

\* profile_error with the goal checked before the sex
profile_error_goal_first(weight_lbs, height_inches, age, sex, activity_level, goal) ==
    IF ~(weight_lbs > 0 /\ height_inches > 0 /\ age > 0) THEN ErrPositive
    ELSE IF lower(goal) \notin GOALS THEN ErrGoal
    ELSE IF lower(sex) \notin {male, female} THEN ErrSex
    ELSE IF lower(activity_level) \notin ACTIVITY_LEVELS THEN ErrActivity
    ELSE NoError

\* the first check of calculate_nutrition_profile that fails, NoError if none
profile_error(weight_lbs, height_inches, age, sex, activity_level, goal) ==
    IF ~(weight_lbs > 0 /\ height_inches > 0 /\ age > 0) THEN ErrPositive
    ELSE IF lower(sex) \notin {male, female} THEN ErrSex
    ELSE IF lower(activity_level) \notin ACTIVITY_LEVELS THEN ErrActivity
    ELSE IF lower(goal) \notin GOALS THEN ErrGoal
    ELSE NoError

\* NutritionProfile with the macros unpacked as (protein, fat, carbs)
NutritionProfile_fat_carbs_swapped(weight_lbs, height_inches, age, sex, activity_level, goal) ==
    LET bmr             == calculate_bmr(weight_lbs, height_inches, age, sex)
        tdee            == calculate_tdee(bmr, activity_level)
        target_calories == calculate_target_calories(tdee, goal)
        macros          == calculate_macronutrients(target_calories, goal, weight_lbs)
        water_oz        == calculate_water_needs(weight_lbs, activity_level)
    IN  [ weight_lbs      |-> weight_lbs,
          height_inches   |-> height_inches,
          age             |-> age,
          sex             |-> sex,
          activity_level  |-> activity_level,
          bmr             |-> bmr,
          tdee            |-> tdee,
          target_calories |-> target_calories,
          protein_grams   |-> macros[1],
          carbs_grams     |-> macros[3],
          fat_grams       |-> macros[2],
          water_oz        |-> water_oz ]

\* the NutritionProfile built once the checks have passed
NutritionProfile(weight_lbs, height_inches, age, sex, activity_level, goal) ==
    LET bmr             == calculate_bmr(weight_lbs, height_inches, age, sex)
        tdee            == calculate_tdee(bmr, activity_level)
        target_calories == calculate_target_calories(tdee, goal)
        macros          == calculate_macronutrients(target_calories, goal, weight_lbs)
        water_oz        == calculate_water_needs(weight_lbs, activity_level)
    IN  [ weight_lbs      |-> weight_lbs,
          height_inches   |-> height_inches,
          age             |-> age,
          sex             |-> sex,
          activity_level  |-> activity_level,
          bmr             |-> bmr,
          tdee            |-> tdee,
          target_calories |-> target_calories,
          protein_grams   |-> macros[1],
          carbs_grams     |-> macros[2],
          fat_grams       |-> macros[3],
          water_oz        |-> water_oz ]

-----------------------------------------------------------------------------
(* Inputs                                                                  *)

MaxWeight == 180
MaxHeight == 70
MaxAge    == 121
MaxBmr    == 400
MaxTdee   == 400
MaxTarget == 120

\* strings a caller may pass that are no literal of the source
MALE        == <<"M","A","L","E">>
Female      == <<"F","e","m","a","l","e">>
empty       == <<>>
Moderate    == <<"M","o","d","e","r","a","t","e">>
extreme     == <<"e","x","t","r","e","m","e">>
cut         == <<"c","u","t">>
Weight_Loss == <<"W","e","i","g","h","t","_","L","o","s","s">>

Sexes  == {male, female, other, MALE, Female, empty}
Levels == ACTIVITY_LEVELS \cup {Moderate, extreme}
Goals  == GOALS \cup DOMAIN goal_adjustments \cup {cut, Weight_Loss}

Weights == {-1, 0, 1} \cup {w \in 2..MaxWeight : w % 90 = 0 \/ w = MaxWeight}
Heights == {0} \cup {h \in 1..MaxHeight : h % 35 = 0 \/ h = MaxHeight}
Ages    == {0} \cup {a \in 1..MaxAge : a \in {13, 30, 120} \/ a >= 121}

MacroWeights  == {w \in Weights : w > 0} \cup {2}
BmrValues     == -1..MaxBmr
TdeeValues    == -1..MaxTdee
TargetValues  == 0..MaxTarget
WaterWeights  == -1..MaxWeight

-----------------------------------------------------------------------------
(* The caller                                                              *)

None == "None"

\* A value that may be None where a test for None follows: None is the empty
\* sequence, a value v the one-element sequence <<v>>.
Nothing == <<>>
Some(v) == <<v>>

\* the threads that may be inside calculate_nutrition_profile at once
NumCallers == 2
Callers    == 1..NumCallers

\* the frame of a caller that is not inside calculate_nutrition_profile
IdleCaller ==
    [ pc |-> "idle", args |-> None, bmr |-> None, tdee |-> None,
      target_calories |-> None, macros |-> None, water_oz |-> None,
      ret |-> None, exc |-> NoError ]

Init ==
    /\ pc = "idle"
    /\ op = "none"
    /\ args = <<>>
    /\ ret = None
    /\ exc = NoError
    /\ callers = [c \in Callers |-> IdleCaller]
    /\ users = <<>>
    /\ daily_logs = <<>>
    /\ session_state = [user_id |-> Nothing, user_data |-> Nothing]

BmrCall ==
    /\ pc = "idle"
    /\ \E weight_lbs \in Weights, height_inches \in Heights, age \in Ages, sex \in Sexes :
        /\ args' = [weight_lbs |-> weight_lbs, height_inches |-> height_inches,
                    age |-> age, sex |-> sex]
        /\ ret' = calculate_bmr(weight_lbs, height_inches, age, sex)
    /\ op' = "calculate_bmr"
    /\ exc' = NoError
    /\ pc' = "returned"
    /\ UNCHANGED <<callers, users, daily_logs, session_state>>

TdeeCall ==
    /\ pc = "idle"
    /\ \E bmr \in BmrValues, activity_level \in Levels :
        /\ args' = [bmr |-> bmr, activity_level |-> activity_level]
        /\ ret' = calculate_tdee(bmr, activity_level)
    /\ op' = "calculate_tdee"
    /\ exc' = NoError
    /\ pc' = "returned"
    /\ UNCHANGED <<callers, users, daily_logs, session_state>>

TargetCaloriesCall ==
    /\ pc = "idle"
    /\ \E tdee \in TdeeValues, goal \in Goals :
        /\ args' = [tdee |-> tdee, goal |-> goal]
        /\ ret' = calculate_target_calories(tdee, goal)
    /\ op' = "calculate_target_calories"
    /\ exc' = NoError
    /\ pc' = "returned"
    /\ UNCHANGED <<callers, users, daily_logs, session_state>>

MacronutrientsCall ==
    /\ pc = "idle"
    /\ \E target_calories \in TargetValues, goal \in Goals,
          weight_lbs \in MacroWeights :
        /\ args' = [target_calories |-> target_calories, goal |-> goal,
                    weight_lbs |-> weight_lbs]
        /\ ret' = calculate_macronutrients(target_calories, goal, weight_lbs)
    /\ op' = "calculate_macronutrients"
    /\ exc' = NoError
    /\ pc' = "returned"
    /\ UNCHANGED <<callers, users, daily_logs, session_state>>

WaterNeedsCall ==
    /\ pc = "idle"
    /\ \E weight_lbs \in WaterWeights, activity_level \in Levels :
        /\ args' = [weight_lbs |-> weight_lbs, activity_level |-> activity_level]
        /\ ret' = calculate_water_needs(weight_lbs, activity_level)
    /\ op' = "calculate_water_needs"
    /\ exc' = NoError
    /\ pc' = "returned"
    /\ UNCHANGED <<callers, users, daily_logs, session_state>>

\* calculate_nutrition_profile: the four checks, then the five calculations
NutritionProfileCall ==
    /\ pc = "idle"
    /\ \E weight_lbs \in Weights, height_inches \in Heights, age \in Ages,
          sex \in Sexes, activity_level \in Levels, goal \in Goals :
        LET error == profile_error(weight_lbs, height_inches, age, sex,
                                   activity_level, goal)
        IN  /\ args' = [weight_lbs |-> weight_lbs, height_inches |-> height_inches,
                        age |-> age, sex |-> sex,
                        activity_level |-> activity_level, goal |-> goal]
            /\ exc' = error
            /\ ret' = IF error = NoError
                      THEN NutritionProfile(weight_lbs, height_inches, age, sex,
                                            activity_level, goal)
                      ELSE None
    /\ op' = "calculate_nutrition_profile"
    /\ pc' = "returned"
    /\ UNCHANGED <<callers, users, daily_logs, session_state>>

\* the caller has used the result and is ready for the next call
Return ==
    /\ pc = "returned"
    /\ pc' = "idle"
    /\ op' = "none"
    /\ args' = <<>>
    /\ ret' = None
    /\ exc' = NoError
    /\ UNCHANGED <<callers, users, daily_logs, session_state>>

Next ==
    \/ BmrCall
    \/ TdeeCall
    \/ TargetCaloriesCall
    \/ MacronutrientsCall
    \/ WaterNeedsCall
    \/ NutritionProfileCall
    \/ Return

Spec == Init /\ [][Next]_vars

-----------------------------------------------------------------------------
(* Properties                                                              *)

\* the calories of a macronutrient split: 4 per gram of protein and of
\* carbohydrate, 9 per gram of fat
MacroCalories(protein_g, carbs_g, fat_g) == protein_g * 4 + carbs_g * 4 + fat_g * 9

\* how far the split the last call returned is from its calorie target
MacroGap ==
    IF op = "calculate_macronutrients"
    THEN Abs(MacroCalories(ret[1], ret[2], ret[3]) - args.target_calories)
    ELSE IF op = "calculate_nutrition_profile" /\ exc = NoError
    THEN Abs(MacroCalories(ret.protein_grams, ret.carbs_grams, ret.fat_grams)
             - ret.target_calories)
    ELSE 0

\* C1 as stated: the calories of the macros returned by
\* calculate_macronutrients, and of every profile returned by
\* calculate_nutrition_profile, are within 2 kcal of target_calories.
C1_MacrosWithin2 == MacroGap <= 2

\* C1 as amended: for a whole-number target_calories the calories of the
\* macros returned by calculate_macronutrients, and of every profile returned
\* by calculate_nutrition_profile, are within 6 kcal of target_calories (fat
\* is rounded to a gram of 9 kcal, carbohydrate to a gram of 4 kcal).
C1_MacrosWithin6 == MacroGap <= 6

\* a call of calculate_macronutrients whose split is 6 kcal off its target
C1_Witness ==
    op = "calculate_macronutrients" /\ validate_weight(args.weight_lbs) /\ MacroGap = 6

\* a profile is returned whose split is more than 2 kcal off its target
C1_ProfileWitness ==
    /\ op = "calculate_nutrition_profile" /\ exc = NoError
    /\ validate_weight(args.weight_lbs) /\ MacroGap > 2

\* the last call was calculate_nutrition_profile
ProfileCalled == op = "calculate_nutrition_profile"

\* the last call of calculate_nutrition_profile raised and returned nothing
ProfileFailed == ProfileCalled /\ exc # NoError /\ ret = None

\* the inputs, written out, that the checks of calculate_nutrition_profile pass
MaleOrFemale   == {male, female, MALE, Female}
KnownLevels    == {sedentary, light, moderate, active, very_active, Moderate}
CanonicalGoals == {weight_loss, maintenance, muscle_gain, general_health, Weight_Loss}

\* C2: calculate_nutrition_profile fails with a validation error and returns
\* no profile whenever weight_lbs <= 0, height_inches <= 0 or age <= 0, and
\* never fails for that reason when all three are strictly positive.
C2_PositiveInputs ==
    ProfileCalled =>
        IF args.weight_lbs <= 0 \/ args.height_inches <= 0 \/ args.age <= 0
        THEN ProfileFailed /\ exc = ErrPositive
        ELSE exc # ErrPositive

\* a call with only the height non-positive has failed
C2_Witness ==
    /\ ProfileCalled
    /\ args.weight_lbs > 0 /\ args.height_inches = 0 /\ args.age > 0
    /\ ProfileFailed /\ exc = ErrPositive

\* C3: calculate_nutrition_profile fails with a validation error for every sex
\* that is not 'male' or 'female' ignoring case, 'other' included, and
\* calculate_bmr called directly with such a sex returns the female result.
C3_SexRejected ==
    /\ (ProfileCalled /\ args.sex \notin MaleOrFemale) =>
            /\ ProfileFailed
            /\ (args.weight_lbs > 0 /\ args.height_inches > 0 /\ args.age > 0)
                    => exc = ErrSex
    /\ (ProfileCalled /\ exc = ErrSex) => args.sex \notin MaleOrFemale
    /\ (op = "calculate_bmr" /\ args.sex \notin MaleOrFemale) =>
            /\ exc = NoError
            /\ ret = calculate_bmr(args.weight_lbs, args.height_inches, args.age, female)

\* a call with sex 'other' and positive numbers has failed on the sex check
C3_Witness ==
    /\ ProfileCalled /\ args.sex = other
    /\ args.weight_lbs > 0 /\ args.height_inches > 0 /\ args.age > 0
    /\ ProfileFailed /\ exc = ErrSex

\* C4: calculate_nutrition_profile fails with a validation error whenever
\* activity_level is not in ACTIVITY_LEVELS or goal is not in GOALS (ignoring
\* case); goal 'cut' raises there, while calculate_target_calories(tdee, 'cut')
\* returns round(tdee * 1.0) = tdee without error.
C4_LevelAndGoalRejected ==
    /\ (ProfileCalled /\ (args.activity_level \notin KnownLevels
                          \/ args.goal \notin CanonicalGoals)) => ProfileFailed
    /\ (ProfileCalled /\ exc = ErrActivity) => args.activity_level \notin KnownLevels
    /\ (ProfileCalled /\ exc = ErrGoal) => args.goal \notin CanonicalGoals
    /\ (op = "calculate_target_calories" /\ args.goal = cut) =>
            exc = NoError /\ ret = args.tdee

\* a call with goal 'cut' and everything else valid has failed on the goal check
C4_Witness ==
    /\ ProfileCalled /\ args.goal = cut
    /\ args.activity_level \in KnownLevels
    /\ ProfileFailed /\ exc = ErrGoal

\* every input but the age passes the checks of calculate_nutrition_profile
OthersValid ==
    /\ args.weight_lbs > 0 /\ args.height_inches > 0
    /\ args.sex \in MaleOrFemale
    /\ args.activity_level \in KnownLevels
    /\ args.goal \in CanonicalGoals

\* C5 as stated: with all other inputs valid, age 13 and age 120 are accepted
\* and age 0 and age 121 raise a validation error.
C5_AgeBoundsAsStated ==
    (ProfileCalled /\ OthersValid) =>
        /\ args.age \in {13, 120} => exc = NoError
        /\ args.age \in {0, 121} => ProfileFailed

\* C5 as amended: with all other inputs valid, calculate_nutrition_profile
\* accepts age 13, age 120 and age 121 (it checks only that the age is
\* positive; the range 13..120 is checked by validate_age at sign-up) and
\* raises a validation error for age 0.
C5_AgeBounds ==
    (ProfileCalled /\ OthersValid) =>
        /\ args.age \in {13, 120, 121} => (exc = NoError /\ ret.age = args.age)
        /\ args.age = 0 => (ProfileFailed /\ exc = ErrPositive)

\* a profile has been returned for age 121
C5_Witness ==
    /\ ProfileCalled /\ OthersValid /\ args.age = 121
    /\ exc = NoError /\ ret.age = 121

\* C6: the profile for weight_lbs=180, height_inches=70, age=30, sex='male',
\* activity_level='moderate', goal='maintain' is computed without error and
\* has BMR=1783, TDEE=2764, target_calories=2764, protein_grams=147,
\* fat_grams=92, carbs_grams=337, water_oz=108.
C6_Scenario ==
    (/\ ProfileCalled
     /\ args = [weight_lbs |-> 180, height_inches |-> 70, age |-> 30, sex |-> male,
                activity_level |-> moderate, goal |-> maintain]) =>
        /\ exc = NoError
        /\ ret.bmr = 1783 /\ ret.tdee = 2764 /\ ret.target_calories = 2764
        /\ ret.protein_grams = 147 /\ ret.fat_grams = 92 /\ ret.carbs_grams = 337
        /\ ret.water_oz = 108

\* C7: for every goal calculate_nutrition_profile accepts, no key of the
\* goal tables of logic.py matches, so the profile has target_calories = tdee,
\* protein at the default 1.8 g/kg and fat at the default 30%.
C7_GoalHasNoEffect ==
    (ProfileCalled /\ exc = NoError) =>
        /\ lower(args.goal) \notin DOMAIN goal_adjustments
        /\ lower(args.goal) \notin DOMAIN protein_multipliers
        /\ lower(args.goal) \notin DOMAIN fat_percentages
        /\ ret.target_calories = ret.tdee
        /\ ret.protein_grams = round(args.weight_lbs * 56699 * 18, 1250000)
        /\ ret.fat_grams = round(ret.target_calories * 30, 900)

\* a profile has been returned for goal 'weight_loss' with target = tdee
C7_Witness ==
    /\ ProfileCalled /\ exc = NoError /\ args.goal = weight_loss
    /\ ret.tdee > 0 /\ ret.target_calories = ret.tdee

\* round(10*weight_lbs*0.453592 + 6.25*height_inches*2.54 - 5*age + offset)
MifflinStJeor(weight_lbs, height_inches, age, offset) ==
    round(weight_lbs * 453592 + height_inches * 1587500 - age * 500000
            + offset * 100000, 100000)

\* C8: calculate_bmr returns the rounded Mifflin-St Jeor sum with +5 when sex
\* is 'male' ignoring case and with -161 for every other sex, never raising;
\* the male result exceeds the non-male result by exactly 166.
C8_BmrFormula ==
    op = "calculate_bmr" =>
        /\ exc = NoError
        /\ ret = MifflinStJeor(args.weight_lbs, args.height_inches, args.age,
                               IF args.sex \in {male, MALE} THEN 5 ELSE -161)
        /\ calculate_bmr(args.weight_lbs, args.height_inches, args.age, male)
             = 166 + calculate_bmr(args.weight_lbs, args.height_inches, args.age, other)

\* calculate_bmr has returned the male result for sex 'MALE'
C8_Witness ==
    /\ op = "calculate_bmr" /\ args.sex = MALE /\ exc = NoError
    /\ args.weight_lbs = 180 /\ args.height_inches = 70 /\ args.age = 30
    /\ ret = 1783

\* C9: with sex fixed, calculate_bmr never falls when weight_lbs or
\* height_inches is raised and never rises when age is raised.
C9_BmrMonotone ==
    (op = "calculate_bmr" /\ args.weight_lbs > 0 /\ args.height_inches > 0 /\ args.age > 0) =>
        /\ \A w \in Weights \cup {args.weight_lbs + 1} : w >= args.weight_lbs =>
                calculate_bmr(w, args.height_inches, args.age, args.sex) >= ret
        /\ \A h \in Heights \cup {args.height_inches + 1} : h >= args.height_inches =>
                calculate_bmr(args.weight_lbs, h, args.age, args.sex) >= ret
        /\ \A a \in Ages \cup {args.age + 1} : a >= args.age =>
                calculate_bmr(args.weight_lbs, args.height_inches, a, args.sex) <= ret

\* calculate_bmr has returned for valid inputs, and a higher age gives less
C9_Witness ==
    /\ op = "calculate_bmr"
    /\ args.weight_lbs = 90 /\ args.height_inches = 35 /\ args.age = 13
    /\ calculate_bmr(180, 35, 13, args.sex) > ret
    /\ calculate_bmr(90, 70, 13, args.sex) > ret
    /\ calculate_bmr(90, 35, 30, args.sex) < ret

\* the activity multiplier of the claim, as a fraction <<numerator, denominator>>
ClaimedMultiplier(activity_level) ==
    CASE activity_level = sedentary               -> <<12, 10>>
      [] activity_level = light                   -> <<1375, 1000>>
      [] activity_level \in {moderate, Moderate}  -> <<155, 100>>
      [] activity_level = active                  -> <<1725, 1000>>
      [] activity_level = very_active             -> <<19, 10>>
      [] OTHER                                    -> <<12, 10>>

\* C10: calculate_tdee(bmr, level) returns round(bmr * m) with m = 1.2, 1.375,
\* 1.55, 1.725, 1.9 for sedentary, light, moderate, active, very_active
\* (ignoring case) and round(bmr * 1.2) without error for any other level.
C10_TdeeMultipliers ==
    op = "calculate_tdee" =>
        /\ exc = NoError
        /\ ret = round(args.bmr * ClaimedMultiplier(args.activity_level)[1],
                       ClaimedMultiplier(args.activity_level)[2])

\* calculate_tdee has returned round(400 * 1.2) for an unrecognised level
C10_Witness ==
    /\ op = "calculate_tdee" /\ args.activity_level = extreme /\ args.bmr = 400
    /\ exc = NoError /\ ret = 480

\* num/den is within one half of the integer n: n is num/den rounded to a
\* nearest integer, whichever way a tie goes
NearestInteger(n, num, den) == 2 * Abs(n * den - num) <= den

\* the goal adjustment of the claim, as a fraction <<numerator, denominator>>
ClaimedAdjustment(goal) ==
    CASE goal = lose_weight       -> <<85, 100>>
      [] goal = maintain          -> <<100, 100>>
      [] goal = gain_muscle       -> <<110, 100>>
      [] goal = improve_endurance -> <<105, 100>>
      [] OTHER                    -> <<100, 100>>

\* C11: calculate_target_calories(tdee, goal) returns tdee * a rounded to an
\* integer with a = 0.85, 1.0, 1.1, 1.05 for lose_weight, maintain,
\* gain_muscle, improve_endurance, and tdee * 1.0 without error for every
\* other goal.
C11_TargetAdjustments ==
    op = "calculate_target_calories" =>
        /\ exc = NoError
        /\ NearestInteger(ret, args.tdee * ClaimedAdjustment(args.goal)[1],
                          ClaimedAdjustment(args.goal)[2])

\* calculate_target_calories has returned 420 = 400 * 1.05
C11_Witness ==
    /\ op = "calculate_target_calories" /\ args.goal = improve_endurance
    /\ args.tdee = 400 /\ exc = NoError /\ ret = 420

\* the protein multiplier (tenths of g/kg) and fat share (hundredths) of the claim
ClaimedProtein(goal) ==
    CASE goal = lose_weight       -> 22
      [] goal = maintain          -> 18
      [] goal = gain_muscle       -> 20
      [] goal = improve_endurance -> 16
      [] OTHER                    -> 18

ClaimedFatShare(goal) ==
    CASE goal = lose_weight       -> 25
      [] goal = maintain          -> 30
      [] goal = gain_muscle       -> 25
      [] goal = improve_endurance -> 25
      [] OTHER                    -> 30

\* C12: calculate_macronutrients returns protein_g = round(weight_kg * p),
\* fat_g = round(target_calories * f / 9) and carbs_g = round((target_calories
\* - 4 * protein_g - target_calories * f) / 4) with the p and f of the goal
\* (1.8 and 0.30 for a goal the tables do not hold): carbs are what remains
\* after the rounded protein grams and the unrounded fat calories.
C12_MacroFormulas ==
    op = "calculate_macronutrients" =>
        LET p == ClaimedProtein(args.goal)
            f == ClaimedFatShare(args.goal)
        IN  /\ exc = NoError
            /\ ret[1] = round(args.weight_lbs * 453592 * p, 10000000)
            /\ ret[3] = round(args.target_calories * f, 900)
            /\ ret[2] = round(100 * args.target_calories - 400 * ret[1]
                              - args.target_calories * f, 400)

\* a call whose carbs differ from the remainder after the rounded fat grams
C12_Witness ==
    /\ op = "calculate_macronutrients" /\ args.goal = lose_weight
    /\ ret[1] > 0 /\ ret[2] > 0 /\ ret[3] > 0
    /\ ret[2] # round(args.target_calories - 4 * ret[1] - 9 * ret[3], 4)

\* by how many hundredths of a kcal the protein calories and the fat
\* calories of the last call of calculate_macronutrients exceed its target
MacroExcess ==
    400 * ret[1] + args.target_calories * ClaimedFatShare(args.goal)
        - 100 * args.target_calories

\* C13 as stated: whenever 4 * protein_g plus the fat calories exceed
\* target_calories by at least 2 kcal, calculate_macronutrients returns a
\* negative carbs_g without raising.
C13_NegativeCarbsFrom2 ==
    (op = "calculate_macronutrients" /\ MacroExcess >= 200) =>
        exc = NoError /\ ret[2] < 0

\* C13 as amended: whenever 4 * protein_g plus the fat calories exceed
\* target_calories by more than 2 kcal, calculate_macronutrients returns a
\* negative carbs_g without raising (at exactly 2 kcal it returns
\* round(-0.5) = 0); a negative carbs_grams can reach a returned profile.
C13_NegativeCarbs ==
    /\ (op = "calculate_macronutrients" /\ MacroExcess > 200) =>
            exc = NoError /\ ret[2] < 0
    /\ (op = "calculate_macronutrients" /\ MacroExcess = 200) =>
            exc = NoError /\ ret[2] = 0
    /\ (ProfileCalled /\ exc = NoError
          /\ 400 * ret.protein_grams + 30 * ret.target_calories
                - 100 * ret.target_calories > 200) =>
            ret.carbs_grams < 0

\* a profile with negative carbs_grams has been returned
C13_Witness ==
    /\ ProfileCalled /\ exc = NoError
    /\ ret.target_calories > 0 /\ ret.carbs_grams < 0

\* calculate_macronutrients has returned carbs of 0 for an excess of 2 kcal
C13_BoundaryWitness ==
    /\ op = "calculate_macronutrients" /\ MacroExcess = 200 /\ ret[2] = 0

\* the water multiplier of the claim, as a fraction <<numerator, denominator>>
ClaimedWater(activity_level) ==
    CASE activity_level = sedentary               -> <<50, 100>>
      [] activity_level = light                   -> <<55, 100>>
      [] activity_level \in {moderate, Moderate}  -> <<60, 100>>
      [] activity_level = active                  -> <<65, 100>>
      [] activity_level = very_active             -> <<70, 100>>
      [] OTHER                                    -> <<50, 100>>

\* C14 as stated: calculate_water_needs returns weight_lbs * w rounded to the
\* nearest integer, an exact .5 tie going to the even integer, with w = 0.5,
\* 0.55, 0.6, 0.65, 0.7 by level and 0.5 for an unrecognised level.
C14_WaterHalfEven ==
    op = "calculate_water_needs" =>
        /\ exc = NoError
        /\ ret = round(args.weight_lbs * ClaimedWater(args.activity_level)[1],
                       ClaimedWater(args.activity_level)[2])

\* C14 as amended: calculate_water_needs returns weight_lbs * w rounded to a
\* nearest integer with w = 0.5, 0.55, 0.6, 0.65, 0.7 by level and 0.5 for an
\* unrecognised level; an exact .5 tie goes to the even integer for w = 0.5,
\* and for the other multipliers to the side on which the double-precision
\* product falls (110 lb at 'light' gives 61, 45 lb at 'very_active' gives 31).
C14_WaterNearest ==
    op = "calculate_water_needs" =>
        LET w == ClaimedWater(args.activity_level)
        IN  /\ exc = NoError
            /\ NearestInteger(ret, args.weight_lbs * w[1], w[2])
            /\ w[1] = 50 => ret = round(args.weight_lbs * w[1], w[2])
            /\ (args.weight_lbs = 110 /\ args.activity_level = light) => ret = 61
            /\ (args.weight_lbs = 45 /\ args.activity_level = very_active) => ret = 31

\* calculate_water_needs(110, 'light') has returned 61 for the product 60.5
C14_Witness ==
    /\ op = "calculate_water_needs" /\ args.weight_lbs = 110
    /\ args.activity_level = light /\ exc = NoError /\ ret = 61

\* C15: every profile calculate_nutrition_profile returns is the composition
\* bmr -> tdee -> target_calories -> macros, and water, of the five
\* sub-calculations, with the input fields copied unchanged.
C15_Pipeline ==
    (ProfileCalled /\ exc = NoError) =>
        LET bmr    == calculate_bmr(args.weight_lbs, args.height_inches, args.age, args.sex)
            tdee   == calculate_tdee(bmr, args.activity_level)
            target == calculate_target_calories(tdee, args.goal)
            macros == calculate_macronutrients(target, args.goal, args.weight_lbs)
        IN  /\ ret.bmr = bmr /\ ret.tdee = tdee /\ ret.target_calories = target
            /\ ret.protein_grams = macros[1]
            /\ ret.carbs_grams = macros[2]
            /\ ret.fat_grams = macros[3]
            /\ ret.water_oz = calculate_water_needs(args.weight_lbs, args.activity_level)
            /\ ret.weight_lbs = args.weight_lbs
            /\ ret.height_inches = args.height_inches
            /\ ret.age = args.age
            /\ ret.sex = args.sex
            /\ ret.activity_level = args.activity_level

\* a profile has been returned whose steps all differ from their inputs
C15_Witness ==
    /\ ProfileCalled /\ exc = NoError /\ args.sex = Female
    /\ ret.bmr > 0 /\ ret.tdee > ret.bmr /\ ret.carbs_grams # ret.fat_grams
    /\ ret.sex = Female

-----------------------------------------------------------------------------
\* Concurrent callers of calculate_nutrition_profile.  Each caller runs the
\* function statement by statement in a frame of its own; the statements of
\* different callers interleave freely.

\* the arguments the callers pass
CallerArgs ==
    { [weight_lbs |-> 180, height_inches |-> 70, age |-> 30, sex |-> male,
       activity_level |-> moderate, goal |-> maintenance],
      [weight_lbs |-> 90, height_inches |-> 35, age |-> 13, sex |-> Female,
       activity_level |-> very_active, goal |-> weight_loss],
      [weight_lbs |-> 180, height_inches |-> 35, age |-> 120, sex |-> female,
       activity_level |-> light, goal |-> muscle_gain],
      [weight_lbs |-> 180, height_inches |-> 70, age |-> 30, sex |-> other,
       activity_level |-> moderate, goal |-> maintenance],
      [weight_lbs |-> 0, height_inches |-> 70, age |-> 30, sex |-> male,
       activity_level |-> moderate, goal |-> maintain],
      [weight_lbs |-> 180, height_inches |-> 0, age |-> 30, sex |-> empty,
       activity_level |-> extreme, goal |-> cut],
      [weight_lbs |-> 180, height_inches |-> 70, age |-> 30, sex |-> other,
       activity_level |-> extreme, goal |-> cut],
      [weight_lbs |-> 180, height_inches |-> 70, age |-> 30, sex |-> MALE,
       activity_level |-> extreme, goal |-> maintain],
      [weight_lbs |-> 180, height_inches |-> 70, age |-> 30, sex |-> male,
       activity_level |-> Moderate, goal |-> maintain] }

\* bmr read from a module-level variable that the other callers assign too
local_bmr_module_level(c) ==
    LET assigned(d) == /\ callers[d].pc \notin {"idle", "checks", "bmr"}
                       /\ callers[d].exc = NoError
    IN  IF \E d \in Callers \ {c} : assigned(d)
        THEN callers[CHOOSE d \in Callers \ {c} : assigned(d)].bmr
        ELSE callers[c].bmr

\* the local variable bmr of caller c
local_bmr(c) == callers[c].bmr

\* caller c enters calculate_nutrition_profile with its arguments bound
CallerEnter(c) ==
    /\ callers[c].pc = "idle"
    /\ \E a \in CallerArgs :
        callers' = [callers EXCEPT ![c] = [IdleCaller EXCEPT !.pc = "checks", !.args = a]]
    /\ UNCHANGED <<pc, op, args, ret, exc, users, daily_logs, session_state>>

\* the four checks: raise, or go on to the calculations
CallerChecks(c) ==
    /\ callers[c].pc = "checks"
    /\ LET a     == callers[c].args
           error == profile_error(a.weight_lbs, a.height_inches, a.age, a.sex,
                                  a.activity_level, a.goal)
       IN  callers' = [callers EXCEPT ![c].exc = error,
                                      ![c].pc = IF error = NoError THEN "bmr"
                                                ELSE "returned"]
    /\ UNCHANGED <<pc, op, args, ret, exc, users, daily_logs, session_state>>

CallerBmr(c) ==
    /\ callers[c].pc = "bmr"
    /\ LET a == callers[c].args
       IN  callers' = [callers EXCEPT
                ![c].bmr = calculate_bmr(a.weight_lbs, a.height_inches, a.age, a.sex),
                ![c].pc = "tdee"]
    /\ UNCHANGED <<pc, op, args, ret, exc, users, daily_logs, session_state>>

CallerTdee(c) ==
    /\ callers[c].pc = "tdee"
    /\ callers' = [callers EXCEPT
            ![c].tdee = calculate_tdee(local_bmr(c), callers[c].args.activity_level),
            ![c].pc = "target_calories"]
    /\ UNCHANGED <<pc, op, args, ret, exc, users, daily_logs, session_state>>

CallerTargetCalories(c) ==
    /\ callers[c].pc = "target_calories"
    /\ callers' = [callers EXCEPT
            ![c].target_calories =
                calculate_target_calories(callers[c].tdee, callers[c].args.goal),
            ![c].pc = "macros"]
    /\ UNCHANGED <<pc, op, args, ret, exc, users, daily_logs, session_state>>

CallerMacros(c) ==
    /\ callers[c].pc = "macros"
    /\ callers' = [callers EXCEPT
            ![c].macros = calculate_macronutrients(callers[c].target_calories,
                                callers[c].args.goal, callers[c].args.weight_lbs),
            ![c].pc = "water"]
    /\ UNCHANGED <<pc, op, args, ret, exc, users, daily_logs, session_state>>

CallerWater(c) ==
    /\ callers[c].pc = "water"
    /\ callers' = [callers EXCEPT
            ![c].water_oz = calculate_water_needs(callers[c].args.weight_lbs,
                                                  callers[c].args.activity_level),
            ![c].pc = "build"]
    /\ UNCHANGED <<pc, op, args, ret, exc, users, daily_logs, session_state>>

\* return NutritionProfile(...) built from the arguments and the locals
CallerBuild(c) ==
    /\ callers[c].pc = "build"
    /\ LET f == callers[c]
       IN  callers' = [callers EXCEPT
                ![c].ret = [ weight_lbs      |-> f.args.weight_lbs,
                             height_inches   |-> f.args.height_inches,
                             age             |-> f.args.age,
                             sex             |-> f.args.sex,
                             activity_level  |-> f.args.activity_level,
                             bmr             |-> local_bmr(c),
                             tdee            |-> f.tdee,
                             target_calories |-> f.target_calories,
                             protein_grams   |-> f.macros[1],
                             carbs_grams     |-> f.macros[2],
                             fat_grams       |-> f.macros[3],
                             water_oz        |-> f.water_oz ],
                ![c].pc = "returned"]
    /\ UNCHANGED <<pc, op, args, ret, exc, users, daily_logs, session_state>>

\* the caller drops the result (or the exception) and its frame
CallerReturn(c) ==
    /\ callers[c].pc = "returned"
    /\ callers' = [callers EXCEPT ![c] = IdleCaller]
    /\ UNCHANGED <<pc, op, args, ret, exc, users, daily_logs, session_state>>

NextCallers ==
    \E c \in Callers :
        \/ CallerEnter(c)
        \/ CallerChecks(c)
        \/ CallerBmr(c)
        \/ CallerTdee(c)
        \/ CallerTargetCalories(c)
        \/ CallerMacros(c)
        \/ CallerWater(c)
        \/ CallerBuild(c)
        \/ CallerReturn(c)

SpecCallers == Init /\ [][NextCallers]_vars

\* C16: calculate_nutrition_profile is deterministic and free of shared
\* state: two calls with equal arguments return equal profiles or fail
\* alike, however the calls of other callers are interleaved with them; and
\* the result is the one a call running alone returns.
C16_Deterministic ==
    \A c \in Callers :
        callers[c].pc = "returned" =>
            /\ \A d \in Callers :
                  (callers[d].pc = "returned" /\ callers[d].args = callers[c].args) =>
                      (callers[d].ret = callers[c].ret /\ callers[d].exc = callers[c].exc)
            /\ LET a == callers[c].args
               IN  /\ callers[c].exc = profile_error(a.weight_lbs, a.height_inches,
                                           a.age, a.sex, a.activity_level, a.goal)
                   /\ callers[c].exc = NoError =>
                         callers[c].ret = NutritionProfile(a.weight_lbs,
                             a.height_inches, a.age, a.sex, a.activity_level, a.goal)

\* two callers hold the profile of equal arguments
C16_Witness ==
    \E c, d \in Callers :
        /\ c # d
        /\ callers[c].pc = "returned" /\ callers[d].pc = "returned"
        /\ callers[c].args = callers[d].args
        /\ callers[c].exc = NoError /\ callers[c].ret.bmr > 0

\* a caller has returned while another caller with other arguments is in
\* the middle of its calculations
C16_InterleavedWitness ==
    \E c, d \in Callers :
        /\ callers[c].pc = "returned" /\ callers[c].exc = NoError
        /\ callers[d].pc = "target_calories"
        /\ callers[d].args # callers[c].args
        /\ callers[d].bmr # callers[c].ret.bmr

-----------------------------------------------------------------------------
\* NutritionCoach.get_personalized_advice.  A text is a sequence of pieces: a
\* remote response is held character by character, a text the coach formats
\* itself is held as the literal runs of its f-string and the digits of the
\* values formatted into them.

upper_char(c) ==
    IF \E i \in 1..26 : LowerCase[i] = c
    THEN UpperCase[CHOOSE i \in 1..26 : LowerCase[i] = c]
    ELSE c

upper(s) == [i \in 1..Len(s) |-> upper_char(s[i])]

Whitespace == {" ", "\n", "\t"}

RECURSIVE lstrip(_)
lstrip(s) == IF s # <<>> /\ Head(s) \in Whitespace THEN lstrip(Tail(s)) ELSE s

RECURSIVE rstrip(_)
rstrip(s) ==
    IF s # <<>> /\ s[Len(s)] \in Whitespace THEN rstrip(SubSeq(s, 1, Len(s) - 1)) ELSE s

strip(s) == rstrip(lstrip(s))

\* sub in s
contains(s, sub) ==
    \E i \in 1..(Len(s) - Len(sub) + 1) : SubSeq(s, i, i + Len(sub) - 1) = sub

\* s.split('\n')
RECURSIVE split(_)
split(s) ==
    IF \A i \in 1..Len(s) : s[i] # "\n" THEN <<s>>
    ELSE LET i == CHOOSE j \in 1..Len(s) :
                      s[j] = "\n" /\ \A k \in 1..(j - 1) : s[k] # "\n"
         IN  <<SubSeq(s, 1, i - 1)>> \o split(SubSeq(s, i + 1, Len(s)))

RECURSIVE join(_)
join(lines) ==
    IF Len(lines) = 0 THEN <<>>
    ELSE IF Len(lines) = 1 THEN lines[1]
    ELSE lines[1] \o <<"\n">> \o join(Tail(lines))

Digits == <<"0","1","2","3","4","5","6","7","8","9">>

\* str(n) of an int
RECURSIVE str(_)
str(n) ==
    IF n < 0 THEN <<"-">> \o str(-n)
    ELSE IF n < 10 THEN <<Digits[n + 1]>>
    ELSE str(n \div 10) \o <<Digits[(n % 10) + 1]>>

\* the section markers, and lines of a response
MEAL_PLAN     == <<"M","E","A","L"," ","P","L","A","N">>
NUTRITION     == <<"N","U","T","R","I","T","I","O","N">>
LIFESTYLE     == <<"L","I","F","E","S","T","Y","L","E">>
MealPlanLine  == <<"M","e","a","l"," ","P","l","a","n",":">>
NutritionLine == <<" ","n","u","t","r","i","t","i","o","n">>
LifestyleLine == <<"L","i","f","e","S","t","y","l","e">>
BothLine      == <<"L","i","f","e","s","t","y","l","e"," ","N","u","t","r","i","t","i","o","n">>
EggsLine      == <<" ","2"," ","e","g","g","s"," ">>

\* section detection and collection over the lines from position i on
RECURSIVE collect_sections(_, _, _, _)
collect_sections(lines, i, current_section, sections) ==
    IF i > Len(lines) THEN sections
    ELSE LET line == strip(lines[i])
         IN  IF line = <<>>
             THEN collect_sections(lines, i + 1, current_section, sections)
             ELSE IF contains(upper(line), MEAL_PLAN)
             THEN collect_sections(lines, i + 1, "meal_plan", sections)
             ELSE IF contains(upper(line), NUTRITION)
             THEN collect_sections(lines, i + 1, "nutrition_tips", sections)
             ELSE IF contains(upper(line), LIFESTYLE)
             THEN collect_sections(lines, i + 1, "lifestyle_tips", sections)
             ELSE IF current_section # None
             THEN collect_sections(lines, i + 1, current_section,
                      [sections EXCEPT ![current_section] = @ \o line \o <<"\n">>])
             ELSE collect_sections(lines, i + 1, current_section, sections)

\* the fallback meal plan built from the profile
fallback_meal_plan(profile) ==
    LET breakfast == round_product(profile.target_calories, Literal(1, 4, 2, 0))
        lunch     == round_product(profile.target_calories, Literal(3, 10, 2, -2))
        dinner    == round_product(profile.target_calories, Literal(3, 10, 2, -2))
        snacks    == round_product(profile.target_calories, Literal(3, 20, 3, -4))
    IN  <<"Here's a personalized meal plan for your stats:\n\nBreakfast (">>
        \o str(breakfast) \o <<" calories):\n...Adjust portions to reach ">>
        \o str(breakfast) \o <<" calories\n\nLunch (">>
        \o str(lunch) \o <<" calories):\n...Adjust portions to reach ">>
        \o str(lunch) \o <<" calories\n\nDinner (">>
        \o str(dinner) \o <<" calories):\n...Adjust portions to reach ">>
        \o str(dinner) \o <<" calories\n\nSnacks (">>
        \o str(snacks) \o <<" calories):\n...Adjust portions to reach ">>
        \o str(snacks) \o <<" calories\n\nTotal: ">>
        \o str(profile.target_calories) \o <<" calories\nProtein: ">>
        \o str(profile.protein_grams) \o <<"g\nCarbs: ">>
        \o str(profile.carbs_grams) \o <<"g\nFat: ">>
        \o str(profile.fat_grams) \o <<"g">>

fallback_nutrition_tips(profile) ==
    <<"Eat exactly ">> \o str(profile.target_calories)
        \o <<" calories daily\nGet ">> \o str(profile.protein_grams)
        \o <<"g of protein\nInclude ">> \o str(profile.carbs_grams)
        \o <<"g of carbs\nAdd ">> \o str(profile.fat_grams)
        \o <<"g of healthy fats\nDrink ">> \o str(profile.water_oz)
        \o <<"oz of water\n...Adjust portions based on your activity level: ">>
        \o profile.activity_level

fallback_lifestyle_tips(profile) ==
    <<"Get 7-8 hours of sleep\nStay consistent with your ">>
        \o profile.activity_level
        \o <<" activity level\nManage stress\nStay hydrated with ">>
        \o str(profile.water_oz)
        \o <<"oz of water daily\nTrack your progress\n...">>

\* the dictionary returned when the remote call or the parsing raises
static_advice(profile, goal) ==
    [ meal_plan      |-> <<"Focus on eating exactly ">> \o str(profile.target_calories)
                            \o <<" calories daily for ">> \o goal
                            \o <<". Adjust portions based on your weight of ">>
                            \o str(profile.weight_lbs) \o <<" lbs.">>,
      nutrition_tips |-> <<"Get ">> \o str(profile.protein_grams)
                            \o <<"g of protein and stay hydrated with ">>
                            \o str(profile.water_oz) \o <<"oz of water.">>,
      lifestyle_tips |-> <<"Stay active at your ">> \o profile.activity_level
                            \o <<" level and get enough sleep.">> ]

\* ensure_section that keeps an empty section
ensure_section_kept_empty(text, fallback) == text

\* a section the response left empty gets the fallback
ensure_section(text, fallback) == IF strip(text) = <<>> THEN fallback ELSE text

\* what the remote chat completion can do
Raises    == [kind |-> "raises"]
NoChoices == [kind |-> "no choices"]
NoContent == [kind |-> "content is None"]
Content(text) == [kind |-> "content", content |-> text]

get_personalized_advice(profile, goal, response) ==
    IF response.kind # "content"
    THEN static_advice(profile, goal)
    ELSE LET sections == collect_sections(split(response.content), 1, None,
                             [meal_plan |-> <<>>, nutrition_tips |-> <<>>,
                              lifestyle_tips |-> <<>>])
         IN  [ meal_plan      |-> ensure_section(sections.meal_plan,
                                      fallback_meal_plan(profile)),
               nutrition_tips |-> ensure_section(sections.nutrition_tips,
                                      fallback_nutrition_tips(profile)),
               lifestyle_tips |-> ensure_section(sections.lifestyle_tips,
                                      fallback_lifestyle_tips(profile)) ]

\* the lines a response is made of, and the longest response in lines
MaxLines == 3

ResponseLines ==
    { MealPlanLine, NutritionLine, LifestyleLine, BothLine, EggsLine, <<" ", " ">>, <<>> }

RECURSIVE LineSeqs(_)
LineSeqs(n) ==
    IF n = 0 THEN {<<>>}
    ELSE LineSeqs(n - 1) \cup
         {Append(ls, l) : ls \in {x \in LineSeqs(n - 1) : Len(x) = n - 1}, l \in ResponseLines}

Responses ==
    {Raises, NoChoices, NoContent} \cup {Content(join(ls)) : ls \in LineSeqs(MaxLines)}

\* the profiles and goals the coach is asked about
CoachInputs ==
    { [profile |-> NutritionProfile(a.weight_lbs, a.height_inches, a.age, a.sex,
                                    a.activity_level, a.goal),
       goal |-> a.goal] :
      a \in {x \in CallerArgs :
                profile_error(x.weight_lbs, x.height_inches, x.age, x.sex,
                              x.activity_level, x.goal) = NoError} }

AdviceCall ==
    /\ pc = "idle"
    /\ \E in \in CoachInputs, response \in Responses :
        /\ args' = [profile |-> in.profile, goal |-> in.goal, response |-> response]
        /\ ret' = get_personalized_advice(in.profile, in.goal, response)
    /\ op' = "get_personalized_advice"
    /\ exc' = NoError
    /\ pc' = "returned"
    /\ UNCHANGED <<callers, users, daily_logs, session_state>>

NextCoach ==
    \/ AdviceCall
    \/ Return

SpecCoach == Init /\ [][NextCoach]_vars

AdviceSections == {"meal_plan", "nutrition_tips", "lifestyle_tips"}

\* the fallback of section k
AdviceFallback(k, profile) ==
    CASE k = "meal_plan"      -> fallback_meal_plan(profile)
      [] k = "nutrition_tips" -> fallback_nutrition_tips(profile)
      [] k = "lifestyle_tips" -> fallback_lifestyle_tips(profile)

\* the non-blank lines of a split text
LinesOf(lines) == {lines[i] : i \in {j \in 1..Len(lines) : strip(lines[j]) # <<>>}}

\* the line names a section
IsHeader(line) ==
    \/ contains(upper(line), MEAL_PLAN)
    \/ contains(upper(line), NUTRITION)
    \/ contains(upper(line), LIFESTYLE)

\* C17: get_personalized_advice never raises and returns exactly the three
\* sections meal_plan, nutrition_tips and lifestyle_tips, each non-empty; when
\* the remote call fails it returns the static fallback texts, and a section
\* the response leaves empty holds the fallback built from the profile.
C17_AdviceSections ==
    op = "get_personalized_advice" =>
        /\ exc = NoError
        /\ DOMAIN ret = AdviceSections
        /\ \A k \in AdviceSections : strip(ret[k]) # <<>>
        /\ args.response.kind # "content" => ret = static_advice(args.profile, args.goal)
        /\ args.response.kind = "content" =>
              \A k \in AdviceSections :
                  \/ ret[k] = AdviceFallback(k, args.profile)
                  \/ \A l \in LinesOf(split(ret[k])) :
                        \E r \in LinesOf(split(args.response.content)) :
                            l = strip(r) /\ ~IsHeader(r)

\* a response with a meal plan only: the other two sections are fallbacks
C17_Witness ==
    /\ op = "get_personalized_advice"
    /\ args.response = Content(MealPlanLine \o <<"\n">> \o EggsLine)
    /\ ret.meal_plan = strip(EggsLine) \o <<"\n">>
    /\ ret.nutrition_tips = fallback_nutrition_tips(args.profile)
    /\ ret.lifestyle_tips = fallback_lifestyle_tips(args.profile)

\* the remote call has raised and the static texts were returned
C17_FailureWitness ==
    /\ op = "get_personalized_advice" /\ args.response = Raises
    /\ ret = static_advice(args.profile, args.goal)

-----------------------------------------------------------------------------
\* src/utils.py: the checks of the sign-up and log forms

Letters       == {UpperCase[i] : i \in 1..26} \cup {LowerCase[i] : i \in 1..26}
DigitChars    == {Digits[i] : i \in 1..10}
EmailLocal    == Letters \cup DigitChars \cup {".", "_", "%", "+", "-"}
EmailDomain   == Letters \cup DigitChars \cup {".", "-"}

\* ^[a-zA-Z0-9._%+-]+@[a-zA-Z0-9.-]+\.[a-zA-Z]{2,}$
validate_email(email) ==
    /\ email # <<>>
    /\ \E at \in 2..Len(email), dot \in 4..Len(email) :
          /\ email[at] = "@" /\ email[dot] = "." /\ at + 1 < dot
          /\ \A i \in 1..(at - 1) : email[i] \in EmailLocal
          /\ \A i \in (at + 1)..(dot - 1) : email[i] \in EmailDomain
          /\ Len(email) - dot >= 2
          /\ \A i \in (dot + 1)..Len(email) : email[i] \in Letters

validate_password(password) ==
    /\ password # <<>>
    /\ Len(password) >= 8
    /\ \E i \in 1..Len(password) : password[i] \in {UpperCase[j] : j \in 1..26}
    /\ \E i \in 1..Len(password) : password[i] \in {LowerCase[j] : j \in 1..26}
    /\ \E i \in 1..Len(password) : password[i] \in DigitChars

validate_nutrition_values(calories, protein, carbs, fat) ==
    /\ 0 <= calories /\ calories <= 10000
    /\ 0 <= protein /\ protein <= 500
    /\ 0 <= carbs /\ carbs <= 1000
    /\ 0 <= fat /\ fat <= 500

\* validate_user_data that reports no error
validate_user_data_accepts_all(email, password, age, height, weight, sex, activity_level, goal) == {}

\* the fields validate_user_data reports an error for
validate_user_data(email, password, age, height, weight, sex, activity_level, goal) ==
    {f \in {"email", "password", "age", "height", "weight", "sex",
            "activity_level", "goal"} :
        \/ f = "email" /\ ~validate_email(email)
        \/ f = "password" /\ ~validate_password(password)
        \/ f = "age" /\ ~validate_age(age)
        \/ f = "height" /\ ~validate_height(height)
        \/ f = "weight" /\ ~validate_weight(weight)
        \/ f = "sex" /\ ~validate_sex(sex)
        \/ f = "activity_level" /\ ~validate_activity_level(activity_level)
        \/ f = "goal" /\ ~validate_goal(goal)}

\* the fields validate_log_data reports an error for (the form passes no date)
validate_log_data(user_id, weight, calories, protein, carbs, fat) ==
    {f \in {"user_id", "weight", "nutrition"} :
        \/ f = "user_id" /\ (user_id = Nothing \/ user_id[1] <= 0)
        \/ f = "weight" /\ ~validate_weight(weight)
        \/ f = "nutrition" /\ ~validate_nutrition_values(calories, protein, carbs, fat)}

-----------------------------------------------------------------------------
\* src/db.py over the tables users and daily_logs.  A table is the sequence
\* of its rows in insertion order; AUTOINCREMENT numbers them from 1 and no
\* row is ever deleted, so the row of id i is the i-th one.

\* bcrypt.hashpw and bcrypt.checkpw: the hash is not the password, and only
\* the password it was made from checks against it
hashpw(password) == <<"$2b$">> \o password

checkpw(password, hashed) == hashed = hashpw(password)

ErrInsertUserFormat == "Error inserting user: Invalid email format"
ErrEmailExists      == "Email already exists"
ErrInsertLogNoUser  == "Error inserting log: User does not exist"

\* insert_user_error on a table whose email column is not UNIQUE
insert_user_error_not_unique(table, email) ==
    IF email = <<>> \/ ~(\E i \in 1..Len(email) : email[i] = "@")
    THEN ErrInsertUserFormat
    ELSE NoError

insert_user_error(table, email) ==
    IF email = <<>> \/ ~(\E i \in 1..Len(email) : email[i] = "@")
    THEN ErrInsertUserFormat
    ELSE IF \E i \in 1..Len(table) : table[i].email = email
    THEN ErrEmailExists
    ELSE NoError

\* the users table after a successful insert_user
insert_user(table, email, password, age, height, weight, sex, activity_level, goal) ==
    Append(table, [ user_id        |-> Len(table) + 1,
                    email          |-> email,
                    password       |-> hashpw(password),
                    age            |-> age,
                    height         |-> height,
                    weight         |-> weight,
                    sex            |-> sex,
                    activity_level |-> activity_level,
                    goal           |-> goal ])

\* without_password that hands the row on as stored
without_password_kept(row) == row

\* a users row as get_user and verify_password return it: no password
without_password(row) ==
    [ user_id |-> row.user_id, email |-> row.email, age |-> row.age,
      height |-> row.height, weight |-> row.weight, sex |-> row.sex,
      activity_level |-> row.activity_level, goal |-> row.goal ]

\* get_user that selects without the WHERE user_id = ? condition
get_user_first_row(table, user_id) ==
    IF table = <<>> THEN Nothing ELSE Some(without_password(table[1]))

get_user(table, user_id) ==
    IF user_id \in 1..Len(table) THEN Some(without_password(table[user_id])) ELSE Nothing

get_user_by_email(table, email) ==
    IF \E i \in 1..Len(table) : table[i].email = email
    THEN Some(table[CHOOSE i \in 1..Len(table) : table[i].email = email])
    ELSE Nothing

\* verify_password that returns the user whatever the password
verify_password_unchecked(table, email, password) ==
    LET user == get_user_by_email(table, email)
    IN  IF user = Nothing THEN Nothing ELSE Some(without_password(user[1]))

verify_password(table, email, password) ==
    LET user == get_user_by_email(table, email)
    IN  IF user = Nothing THEN Nothing
        ELSE IF checkpw(password, user[1].password) THEN Some(without_password(user[1]))
        ELSE Nothing

\* Dates.  The clock is a day number, day 1 being 2026-01-01; the database
\* holds and compares the text strftime('%Y-%m-%d') makes of it.

strftime(day) ==
    LET year  == IF day < 1 THEN <<"2","0","2","5">> ELSE <<"2","0","2","6">>
        month == IF day < 1 THEN 12 ELSE IF day <= 31 THEN 1 ELSE 2
        dom   == IF day < 1 THEN day + 31 ELSE IF day <= 31 THEN day ELSE day - 31
        two_digits(n) == <<Digits[(n \div 10) + 1], Digits[(n % 10) + 1]>>
    IN  year \o <<"-">> \o two_digits(month) \o <<"-">> \o two_digits(dom)

\* a <= b for TEXT values under the BINARY collation, ord being the code
\* point of a character of a date
RECURSIVE text_le(_, _)
text_le(a, b) ==
    LET ord(c) == IF c = "-" THEN 45 ELSE 47 + CHOOSE i \in 1..10 : Digits[i] = c
    IN  IF a = <<>> THEN TRUE
        ELSE IF b = <<>> THEN FALSE
        ELSE IF Head(a) # Head(b) THEN ord(Head(a)) < ord(Head(b))
        ELSE text_le(Tail(a), Tail(b))

\* insert_log_error without the SELECT that looks the user up
insert_log_error_unchecked(table, user_id) == NoError

insert_log_error(table, user_id) ==
    IF user_id \in 1..Len(table) THEN NoError ELSE ErrInsertLogNoUser

\* the daily_logs table after a successful insert_log on the day today: a
\* call without a date stores the current date
insert_log(logs, user_id, weight, calories, protein, carbs, fat, date, today) ==
    Append(logs, [ log_id |-> Len(logs) + 1, user_id |-> user_id,
                   date |-> IF date = Nothing THEN strftime(today) ELSE date[1],
                   weight |-> weight, calories |-> calories, protein |-> protein,
                   carbs |-> carbs, fat |-> fat ])

\* a daily_logs row as get_logs returns it: no user_id
log_entry(row) ==
    [ log_id |-> row.log_id, date |-> row.date, weight |-> row.weight,
      calories |-> row.calories, protein |-> row.protein, carbs |-> row.carbs,
      fat |-> row.fat ]

\* selected_logs with date < end_date for date <= end_date
selected_logs_end_exclusive(logs, user_id, start_date, end_date) ==
    {i \in 1..Len(logs) :
        /\ logs[i].user_id = user_id
        /\ start_date # Nothing => text_le(start_date[1], logs[i].date)
        /\ end_date # Nothing =>
              text_le(logs[i].date, end_date[1]) /\ logs[i].date # end_date[1]}

\* the log ids get_logs selects
selected_logs(logs, user_id, start_date, end_date) ==
    {i \in 1..Len(logs) :
        /\ logs[i].user_id = user_id
        /\ start_date # Nothing => text_le(start_date[1], logs[i].date)
        /\ end_date # Nothing => text_le(logs[i].date, end_date[1])}

\* the lists get_logs can return: the selected rows ORDER BY date DESC, rows
\* of one date in any order (the query names no second sort key)
get_logs(logs, user_id, start_date, end_date) ==
    LET ids == selected_logs(logs, user_id, start_date, end_date)
        n   == Cardinality(ids)
    IN  { [k \in 1..n |-> log_entry(logs[order[k]])] :
          order \in {o \in [1..n -> ids] :
                        /\ \A j, k \in 1..n : j # k => o[j] # o[k]
                        /\ \A j, k \in 1..n :
                              j < k => text_le(logs[o[k]].date, logs[o[j]].date)} }

-----------------------------------------------------------------------------
\* src/models/ai_coach.py: NutritionCoach.analyze_progress on a non-empty list

RECURSIVE sum_of(_, _)
sum_of(logs, field) ==
    IF logs = <<>> THEN 0 ELSE Head(logs)[field] + sum_of(Tail(logs), field)

\* the figures the analysis text is formatted from; an average is kept as
\* <<sum, count>>
analyze_progress(profile, logs, goal) ==
    LET calories      == sum_of(logs, "calories")
        protein       == sum_of(logs, "protein")
        latest_weight == logs[Len(logs)].weight
        initial_weight == logs[1].weight
        weight_change == latest_weight - initial_weight
    IN  [ avg_calories    |-> <<calories, Len(logs)>>,
          avg_protein     |-> <<protein, Len(logs)>>,
          weight_change   |-> weight_change,
          target_calories |-> profile.target_calories,
          calorie_advice  |-> IF calories < profile.target_calories * Len(logs)
                              THEN "Increase" ELSE "Maintain",
          protein_advice  |-> IF protein < profile.protein_grams * Len(logs)
                              THEN "Increase" ELSE "Maintain",
          approach        |-> IF weight_change > 0 THEN "Continue" ELSE "Adjust" ]

-----------------------------------------------------------------------------
\* src/app.py: one browser session over the database.  A click runs its
\* handler to the end; op, args, ret and exc show what the handler did until
\* the page is drawn again.

MaxUsers == 2
MaxLogs  == 2
MaxDay   == 40

\* what is typed into the forms
alice        == <<"a","@","b",".","c","o">>
bob          == <<"c","@","d",".","i","o">>
not_an_email == <<"a","@","b">>
Passw0rd     == <<"P","a","s","s","w","0","r","d">>
weak         == <<"w","e","a","k">>

Emails    == {alice, bob, not_an_email, <<>>}
Passwords == {Passw0rd, weak}

\* the sign-up form: the number inputs keep to their min_value and max_value
\* and the select boxes to their options
SignUpForms ==
    {f \in { [age |-> 30, height |-> 70, weight |-> 180, sex |-> male,
              activity_level |-> moderate, goal |-> maintenance],
             [age |-> 120, height |-> 20, weight |-> 50, sex |-> male,
              activity_level |-> sedentary, goal |-> maintenance],
             [age |-> 30, height |-> 70, weight |-> 180, sex |-> other,
              activity_level |-> moderate, goal |-> weight_loss] } :
        /\ f.age \in 13..120 /\ f.height \in 20..100 /\ f.weight \in 50..661
        /\ f.sex \in {male, female, other}
        /\ f.activity_level \in ACTIVITY_LEVELS /\ f.goal \in GOALS}

\* the log form: weight between 50.0 and 661.0, the other fields at their
\* initial values
LogWeights == {50, 180}
LogForm(weight) ==
    [weight |-> weight, calories |-> 2000, protein |-> 150, carbs |-> 200, fat |-> 70]

\* the days the clock can show, the first and the last day of one 30-day
\* window: never before the date of a stored log
Days == {MaxDay - 30, MaxDay}
Today ==
    {d \in Days : \A i \in 1..Len(daily_logs) : text_le(daily_logs[i].date, strftime(d))}

\* the answers of the remote model the dashboard meets
AppResponses == {Raises, Content(MealPlanLine \o <<"\n">> \o EggsLine)}

LoggedIn == session_state.user_id # Nothing

\* the calculator's arguments taken from the weight of the user's newest log
profile_args_latest_log(user_data) ==
    LET mine == {i \in 1..Len(daily_logs) : daily_logs[i].user_id = user_data.user_id}
        newest == CHOOSE i \in mine : \A j \in mine : j <= i
    IN  [ weight_lbs     |-> IF mine = {} THEN user_data.weight
                             ELSE daily_logs[newest].weight,
          height_inches  |-> user_data.height,
          age            |-> user_data.age,
          sex            |-> user_data.sex,
          activity_level |-> user_data.activity_level,
          goal           |-> user_data.goal ]

\* the arguments both dashboard flows pass to calculate_nutrition_profile
profile_args(user_data) ==
    [ weight_lbs     |-> user_data.weight,
      height_inches  |-> user_data.height,
      age            |-> user_data.age,
      sex            |-> user_data.sex,
      activity_level |-> user_data.activity_level,
      goal           |-> user_data.goal ]

\* "Login" on the login page
Login ==
    /\ pc = "idle" /\ ~LoggedIn
    /\ \E email \in Emails, password \in Passwords :
        LET user == verify_password(users, email, password)
        IN  /\ args' = [email |-> email, password |-> password]
            /\ IF email = <<>>
               THEN /\ exc' = "Please enter both email and password"
                    /\ UNCHANGED session_state
               ELSE IF user # Nothing
               THEN /\ exc' = NoError
                    /\ session_state' = [user_id |-> Some(user[1].user_id),
                                         user_data |-> user]
               ELSE /\ exc' = "Invalid email or password"
                    /\ UNCHANGED session_state
    /\ op' = "Login"
    /\ ret' = None
    /\ pc' = "returned"
    /\ UNCHANGED <<callers, users, daily_logs>>

\* "Create Account" on the sign-up form
SignUp ==
    /\ pc = "idle" /\ ~LoggedIn
    /\ Len(users) < MaxUsers
    /\ \E email \in Emails, password \in Passwords, confirm_password \in Passwords,
          f \in SignUpForms :
        LET errors == validate_user_data(email, password, f.age, f.height, f.weight,
                                         f.sex, f.activity_level, f.goal)
            error  == insert_user_error(users, email)
            table  == insert_user(users, email, password, f.age, f.height, f.weight,
                                  f.sex, f.activity_level, f.goal)
        IN  /\ args' = [email |-> email, password |-> password,
                        confirm_password |-> confirm_password, form |-> f]
            /\ IF password # confirm_password
               THEN /\ exc' = "Passwords do not match!"
                    /\ ret' = None
                    /\ UNCHANGED <<users, session_state>>
               ELSE IF errors # {}
               THEN /\ exc' = "validation"
                    /\ ret' = errors
                    /\ UNCHANGED <<users, session_state>>
               ELSE IF error # NoError
               THEN /\ exc' = error
                    /\ ret' = None
                    /\ UNCHANGED <<users, session_state>>
               ELSE /\ exc' = NoError
                    /\ ret' = Len(table)
                    /\ users' = table
                    /\ session_state' = [user_id |-> Some(Len(table)),
                                         user_data |-> get_user(table, Len(table))]
    /\ op' = "Create Account"
    /\ pc' = "returned"
    /\ UNCHANGED <<callers, daily_logs>>

\* "Logout" in the sidebar of the dashboard
Logout ==
    /\ pc = "idle" /\ LoggedIn
    /\ session_state' = [user_id |-> Nothing, user_data |-> Nothing]
    /\ op' = "Logout"
    /\ args' = <<>>
    /\ ret' = None
    /\ exc' = NoError
    /\ pc' = "returned"
    /\ UNCHANGED <<callers, users, daily_logs>>

\* "Get AI Advice": the profile of the session's user, then the coach
GetAdvice ==
    /\ pc = "idle" /\ LoggedIn
    /\ \E response \in AppResponses :
        LET a     == profile_args(session_state.user_data[1])
            error == profile_error(a.weight_lbs, a.height_inches, a.age, a.sex,
                                   a.activity_level, a.goal)
            profile == NutritionProfile(a.weight_lbs, a.height_inches, a.age, a.sex,
                                        a.activity_level, a.goal)
        IN  /\ args' = a
            /\ exc' = error
            /\ ret' = IF error # NoError THEN None
                      ELSE [ profile |-> profile,
                             advice  |-> get_personalized_advice(profile, a.goal, response) ]
    /\ op' = "Get AI Advice"
    /\ pc' = "returned"
    /\ UNCHANGED <<callers, users, daily_logs, session_state>>

\* "Analyze Progress": the profile, the logs of the last 30 days, the analysis
AnalyzeProgress ==
    /\ pc = "idle" /\ LoggedIn
    /\ \E today \in Today :
        LET a     == profile_args(session_state.user_data[1])
            error == profile_error(a.weight_lbs, a.height_inches, a.age, a.sex,
                                   a.activity_level, a.goal)
            profile == NutritionProfile(a.weight_lbs, a.height_inches, a.age, a.sex,
                                        a.activity_level, a.goal)
        IN  /\ args' = a
            /\ exc' = error
            /\ IF error # NoError THEN ret' = None
               ELSE \E logs \in get_logs(daily_logs, session_state.user_id[1],
                                         Some(strftime(today - 30)),
                                         Some(strftime(today))) :
                       ret' = [ profile  |-> profile,
                                logs     |-> logs,
                                analysis |-> IF logs = <<>> THEN Nothing
                                             ELSE Some(analyze_progress(profile, logs, a.goal)) ]
    /\ op' = "Analyze Progress"
    /\ pc' = "returned"
    /\ UNCHANGED <<callers, users, daily_logs, session_state>>

\* "Save Log" on the log form
SaveLog ==
    /\ pc = "idle" /\ LoggedIn
    /\ Len(daily_logs) < MaxLogs
    /\ \E weight \in LogWeights, today \in Today :
        LET f      == LogForm(weight)
            errors == validate_log_data(session_state.user_id, f.weight, f.calories,
                                        f.protein, f.carbs, f.fat)
            error  == insert_log_error(users, session_state.user_id[1])
        IN  /\ args' = f
            /\ IF errors # {}
               THEN /\ exc' = "validation"
                    /\ ret' = errors
                    /\ UNCHANGED daily_logs
               ELSE IF error # NoError
               THEN /\ exc' = "Error saving log: " \o error
                    /\ ret' = None
                    /\ UNCHANGED daily_logs
               ELSE /\ exc' = NoError
                    /\ ret' = Len(daily_logs) + 1
                    /\ daily_logs' = insert_log(daily_logs, session_state.user_id[1],
                                         f.weight, f.calories, f.protein, f.carbs,
                                         f.fat, Nothing, today)
    /\ op' = "Save Log"
    /\ pc' = "returned"
    /\ UNCHANGED <<callers, users, session_state>>

NextApp ==
    \/ Login
    \/ SignUp
    \/ Logout
    \/ GetAdvice
    \/ AnalyzeProgress
    \/ SaveLog
    \/ Return

SpecApp == Init /\ [][NextApp]_vars

\* a dashboard flow that computes a profile has just run
ProfileFlows == {"Get AI Advice", "Analyze Progress"}
ProfileFlowRuns == pc = "idle" /\ pc' = "returned" /\ op' \in ProfileFlows

\* the users row of the session's user
StoredUser == users[session_state.user_id[1]]

\* C18: computing a profile and requesting advice or progress analysis never
\* writes to storage: users and daily_logs are unchanged by the two flows,
\* and the biometrics passed to calculate_nutrition_profile are those of the
\* stored user record, whatever the logs hold.
C18_NoStorageWrites ==
    [][ProfileFlowRuns =>
          /\ users' = users
          /\ daily_logs' = daily_logs
          /\ args' = [ weight_lbs     |-> StoredUser.weight,
                       height_inches  |-> StoredUser.height,
                       age            |-> StoredUser.age,
                       sex            |-> StoredUser.sex,
                       activity_level |-> StoredUser.activity_level,
                       goal           |-> StoredUser.goal ]]_vars

\* progress was analysed over a log whose weight is not the stored weight
C18_Witness ==
    /\ op = "Analyze Progress" /\ exc = NoError
    /\ ret.logs # <<>> /\ ret.logs[1].weight # StoredUser.weight
    /\ ret.profile.weight_lbs = StoredUser.weight
    /\ Len(daily_logs) = Len(ret.logs)

\* advice was given to a user who has logged another weight
C18_AdviceWitness ==
    /\ op = "Get AI Advice" /\ exc = NoError
    /\ \E i \in 1..Len(daily_logs) :
          /\ daily_logs[i].user_id = session_state.user_id[1]
          /\ daily_logs[i].weight # StoredUser.weight
    /\ ret.profile.weight_lbs = StoredUser.weight

\* C19: every user record that passed the sign-up validation is accepted by
\* calculate_nutrition_profile: advice and progress analysis for a registered
\* user never fail with a validation error.
C19_RegisteredUserAccepted ==
    op \in ProfileFlows => exc = NoError

\* C20: for inputs in the sign-up ranges with sex male or female the bmr,
\* tdee and target_calories of the returned profile are strictly positive.
C20_PositiveEnergy ==
    (/\ op \in ProfileFlows /\ exc = NoError
     /\ validate_age(args.age) /\ validate_height(args.height_inches)
     /\ validate_weight(args.weight_lbs) /\ args.sex \in {male, female}) =>
        /\ ret.profile.bmr > 0
        /\ ret.profile.tdee > 0
        /\ ret.profile.target_calories > 0

\* the checks of calculate_nutrition_profile, one by one, on arguments a
PositiveOk(a) == a.weight_lbs > 0 /\ a.height_inches > 0 /\ a.age > 0
SexOk(a)      == lower(a.sex) \in {male, female}
LevelOk(a)    == lower(a.activity_level) \in {sedentary, light, moderate, active, very_active}
GoalOk(a)     == lower(a.goal) \in {weight_loss, maintenance, muscle_gain, general_health}

\* the steps of a caller after the checks
CalculationSteps == {"bmr", "tdee", "target_calories", "macros", "water", "build"}

\* C21: the checks run in the order positivity, sex, activity_level, goal
\* and only the first failing one is reported; once a check fails the caller
\* leaves at once: no sub-calculation has run and no profile is built.
C21_FirstFailingCheck ==
    \A c \in Callers :
        LET f == callers[c]
            a == f.args
        IN  /\ f.pc \in CalculationSteps => f.exc = NoError
            /\ f.pc \in CalculationSteps \cup {"returned"} =>
                  /\ f.exc = ErrPositive <=> ~PositiveOk(a)
                  /\ f.exc = ErrSex <=> PositiveOk(a) /\ ~SexOk(a)
                  /\ f.exc = ErrActivity <=> PositiveOk(a) /\ SexOk(a) /\ ~LevelOk(a)
                  /\ f.exc = ErrGoal <=>
                        PositiveOk(a) /\ SexOk(a) /\ LevelOk(a) /\ ~GoalOk(a)
                  /\ f.exc = NoError <=>
                        PositiveOk(a) /\ SexOk(a) /\ LevelOk(a) /\ GoalOk(a)
            /\ f.exc # NoError =>
                  /\ f.pc = "returned"
                  /\ f.ret = None /\ f.bmr = None /\ f.tdee = None
                  /\ f.target_calories = None /\ f.macros = None /\ f.water_oz = None

\* a call whose sex, level and goal are all bad has raised the sex error
C21_Witness ==
    \E c \in Callers :
        /\ callers[c].pc = "returned" /\ callers[c].exc = ErrSex
        /\ ~LevelOk(callers[c].args) /\ ~GoalOk(callers[c].args)
        /\ callers[c].bmr = None

\* a call whose level and goal are both bad has raised the level error
C21_LevelWitness ==
    \E c \in Callers :
        /\ callers[c].pc = "returned" /\ callers[c].exc = ErrActivity
        /\ ~GoalOk(callers[c].args)

\* the day a stored date stands for
digit_value(c) == (CHOOSE i \in 1..10 : Digits[i] = c) - 1
day_of(date) ==
    LET year  == digit_value(date[4])
        month == 10 * digit_value(date[6]) + digit_value(date[7])
        dom   == 10 * digit_value(date[9]) + digit_value(date[10])
    IN  IF year = 5 THEN dom - 31 ELSE IF month = 1 THEN dom ELSE 31 + dom

\* the analysed logs of the newest date and of the oldest date
NewestLogs(logs) ==
    {i \in 1..Len(logs) : \A j \in 1..Len(logs) : day_of(logs[j].date) <= day_of(logs[i].date)}
OldestLogs(logs) ==
    {i \in 1..Len(logs) : \A j \in 1..Len(logs) : day_of(logs[j].date) >= day_of(logs[i].date)}

\* C22: in the Progress Analysis flow the reported weight change is the weight
\* of the chronologically latest log in the window minus the weight of the
\* chronologically earliest one.
C22_WeightChange ==
    (op = "Analyze Progress" /\ exc = NoError /\ ret.logs # <<>>) =>
        \E latest \in NewestLogs(ret.logs), earliest \in OldestLogs(ret.logs) :
            ret.analysis[1].weight_change
                = ret.logs[latest].weight - ret.logs[earliest].weight

-----------------------------------------------------------------------------
\* src/db.py called directly, by any caller and with any arguments, over one
\* database.

\* the addresses of the callers: the two of the web session, one that differs
\* from alice in case only, one without '@', the empty one
DbEmails ==
    {alice, bob, <<"A","@","b",".","c","o">>, <<"a","b">>, <<>>}

InsertUserCall ==
    /\ pc = "idle"
    /\ Len(users) < MaxUsers
    /\ \E email \in DbEmails, password \in Passwords :
        LET error == insert_user_error(users, email)
            table == insert_user(users, email, password, 30, 70, 180, male,
                                 moderate, maintenance)
        IN  /\ args' = [email |-> email, password |-> password]
            /\ exc' = error
            /\ IF error # NoError
               THEN ret' = None /\ UNCHANGED users
               ELSE ret' = table[Len(table)].user_id /\ users' = table
    /\ op' = "insert_user"
    /\ pc' = "returned"
    /\ UNCHANGED <<callers, daily_logs, session_state>>

InsertLogCall ==
    /\ pc = "idle"
    /\ Len(daily_logs) < MaxLogs
    /\ \E user_id \in 1..(MaxUsers + 1), today \in Days,
          date \in {Nothing} \cup {Some(strftime(d)) : d \in Days} :
        LET error == insert_log_error(users, user_id)
            logs  == insert_log(daily_logs, user_id, 180, 2000, 150, 200, 70,
                                date, today)
        IN  /\ args' = [user_id |-> user_id, date |-> date]
            /\ exc' = error
            /\ IF error # NoError
               THEN ret' = None /\ UNCHANGED daily_logs
               ELSE ret' = logs[Len(logs)].log_id /\ daily_logs' = logs
    /\ op' = "insert_log"
    /\ pc' = "returned"
    /\ UNCHANGED <<callers, users, session_state>>

GetUserCall ==
    /\ pc = "idle"
    /\ \E user_id \in 1..(MaxUsers + 1) :
        /\ args' = [user_id |-> user_id]
        /\ ret' = get_user(users, user_id)
    /\ op' = "get_user"
    /\ exc' = NoError
    /\ pc' = "returned"
    /\ UNCHANGED <<callers, users, daily_logs, session_state>>

GetLogsCall ==
    /\ pc = "idle"
    /\ \E user_id \in 1..(MaxUsers + 1),
          start_date \in {Nothing} \cup {Some(strftime(d)) : d \in Days},
          end_date \in {Nothing} \cup {Some(strftime(d)) : d \in Days} :
        /\ args' = [user_id |-> user_id, start_date |-> start_date,
                    end_date |-> end_date]
        /\ ret' \in get_logs(daily_logs, user_id, start_date, end_date)
    /\ op' = "get_logs"
    /\ exc' = NoError
    /\ pc' = "returned"
    /\ UNCHANGED <<callers, users, daily_logs, session_state>>

VerifyPasswordCall ==
    /\ pc = "idle"
    /\ \E email \in DbEmails, password \in Passwords :
        /\ args' = [email |-> email, password |-> password]
        /\ ret' = verify_password(users, email, password)
    /\ op' = "verify_password"
    /\ exc' = NoError
    /\ pc' = "returned"
    /\ UNCHANGED <<callers, users, daily_logs, session_state>>

NextDb ==
    \/ InsertUserCall
    \/ InsertLogCall
    \/ GetUserCall
    \/ GetLogsCall
    \/ VerifyPasswordCall
    \/ Return

SpecDb == Init /\ [][NextDb]_vars

UserIdsOf(table) == {table[i].user_id : i \in 1..Len(table)}
EmailsOf(table)  == {table[i].email : i \in 1..Len(table)}

UniqueUsers ==
    \A i, j \in 1..Len(users) :
        i # j => users[i].email # users[j].email /\ users[i].user_id # users[j].user_id

InsertUserRuns == pc = "idle" /\ pc' = "returned" /\ op' = "insert_user"

\* C23: after any sequence of insert_user calls no two rows of users share
\* an email; insert_user with a stored email raises 'Email already exists'
\* and leaves users unchanged; a successful call appends one row and returns
\* a user_id that no earlier row has.
C23_UniqueEmails ==
    /\ []UniqueUsers
    /\ [][InsertUserRuns =>
            /\ args'.email \in EmailsOf(users) =>
                  exc' = ErrEmailExists /\ users' = users
            /\ exc' # NoError => users' = users /\ ret' = None
            /\ exc' = NoError =>
                  /\ ret' \notin UserIdsOf(users)
                  /\ Len(users') = Len(users) + 1
                  /\ SubSeq(users', 1, Len(users)) = users
                  /\ users'[Len(users')].user_id = ret'
                  /\ users'[Len(users')].email = args'.email]_vars

\* a second insert_user with a stored email was refused
C23_Witness ==
    /\ op = "insert_user" /\ exc = ErrEmailExists
    /\ args.email \in EmailsOf(users)

\* two addresses that differ in case only are both stored
C23_CaseWitness ==
    /\ op = "insert_user" /\ exc = NoError /\ ret = 2
    /\ EmailsOf(users) = {alice, <<"A","@","b",".","c","o">>}

InsertLogRuns == pc = "idle" /\ pc' = "returned" /\ op' = "insert_log"

\* C24: after any sequence of insert_user and insert_log calls every row of
\* daily_logs has a user_id present in users; insert_log for a user_id with
\* no users row raises an error and inserts no row.
C24_LogsHaveUsers ==
    /\ [](\A i \in 1..Len(daily_logs) : daily_logs[i].user_id \in UserIdsOf(users))
    /\ [][InsertLogRuns =>
            /\ args'.user_id \notin UserIdsOf(users) =>
                  exc' # NoError /\ daily_logs' = daily_logs
            /\ args'.user_id \in UserIdsOf(users) =>
                  /\ exc' = NoError
                  /\ Len(daily_logs') = Len(daily_logs) + 1
                  /\ daily_logs'[Len(daily_logs')].user_id = args'.user_id]_vars

\* insert_log for an id no row has was refused while other users exist
C24_Witness ==
    /\ op = "insert_log" /\ exc = ErrInsertLogNoUser
    /\ users # <<>> /\ args.user_id \notin UserIdsOf(users)

\* the rows of daily_logs the claim lets get_logs return for the last call
ClaimedLogs ==
    {i \in 1..Len(daily_logs) :
        /\ daily_logs[i].user_id = args.user_id
        /\ args.start_date # Nothing =>
              day_of(args.start_date[1]) <= day_of(daily_logs[i].date)
        /\ args.end_date # Nothing =>
              day_of(daily_logs[i].date) <= day_of(args.end_date[1])}

\* C25: get_logs returns exactly the rows of the user whose date lies between
\* start_date and end_date, both inclusive, an omitted bound imposing no
\* limit; never a row of another user; from the newest date to the oldest.
C25_GetLogs ==
    op = "get_logs" =>
        /\ exc = NoError
        /\ Len(ret) = Cardinality(ClaimedLogs)
        /\ {ret[k].log_id : k \in 1..Len(ret)} = ClaimedLogs
        /\ \A k \in 1..Len(ret) : ret[k] = log_entry(daily_logs[ret[k].log_id])
        /\ \A k \in 1..Len(ret) : daily_logs[ret[k].log_id].user_id = args.user_id
        /\ \A j, k \in 1..Len(ret) :
              j < k => day_of(ret[j].date) >= day_of(ret[k].date)

\* a query with both bounds on the date of a stored row returned it, not the
\* row of another date and not the row of another user
C25_Witness ==
    /\ op = "get_logs" /\ Len(ret) = 1
    /\ args.start_date = Some(ret[1].date) /\ args.end_date = Some(ret[1].date)
    /\ \E i \in 1..Len(daily_logs) :
          daily_logs[i].user_id = args.user_id /\ daily_logs[i].date # ret[1].date

\* a query without bounds returned a row inserted later below one inserted
\* earlier
C25_OrderWitness ==
    /\ op = "get_logs" /\ Len(ret) = 2
    /\ args.start_date = Nothing /\ args.end_date = Nothing
    /\ ret[1].log_id > ret[2].log_id /\ ret[1].date # ret[2].date

\* C26: verify_password returns a user record only when a users row with the
\* email exists and the password matches its stored hash, None otherwise; the
\* record has no password field.
C26_VerifyPassword ==
    op = "verify_password" =>
        /\ exc = NoError
        /\ ret # Nothing <=>
              \E i \in 1..Len(users) :
                  users[i].email = args.email /\ checkpw(args.password, users[i].password)
        /\ ret # Nothing =>
              /\ "password" \notin DOMAIN ret[1]
              /\ ret[1].email = args.email
              /\ ret[1].user_id \in UserIdsOf(users)
              /\ \A k \in DOMAIN ret[1] : ret[1][k] = users[ret[1].user_id][k]

\* the right password returned the record of the second user
C26_Witness ==
    /\ op = "verify_password" /\ ret # Nothing
    /\ ret[1].user_id = 2 /\ Len(users) = 2
    /\ users[1].password # users[2].password

\* a stored email with the password of another user returned None
C26_RefusedWitness ==
    /\ op = "verify_password" /\ ret = Nothing
    /\ args.email \in EmailsOf(users)
    /\ \E i \in 1..Len(users) : checkpw(args.password, users[i].password)

\* C27: in every state of the web session user_id is None exactly when
\* user_data is None, and when both are set user_data['user_id'] equals
\* user_id: login and sign-up set the two together, logout clears the two.
C27_SessionPair ==
    /\ session_state.user_id = Nothing <=> session_state.user_data = Nothing
    /\ session_state.user_id # Nothing =>
          session_state.user_data[1].user_id = session_state.user_id[1]
    /\ (pc = "returned" /\ op \in {"Login", "Create Account"} /\ exc = NoError) =>
          session_state.user_id # Nothing /\ session_state.user_data # Nothing
    /\ (pc = "returned" /\ op = "Logout") =>
          session_state.user_id = Nothing /\ session_state.user_data = Nothing

\* a sign-up of a second user set the pair to the new row
C27_Witness ==
    /\ pc = "returned" /\ op = "Create Account" /\ exc = NoError
    /\ session_state.user_id = Some(2)
    /\ session_state.user_data[1].user_id = 2

\* a logout cleared the pair
C27_LogoutWitness ==
    /\ pc = "returned" /\ op = "Logout" /\ users # <<>>
    /\ session_state.user_id = Nothing /\ session_state.user_data = Nothing

EntryFlows     == {"Login", "Create Account"}
DashboardFlows == {"Logout", "Get AI Advice", "Analyze Progress", "Save Log"}
FlowRuns(flows) == pc = "idle" /\ pc' = "returned" /\ op' \in flows

\* the submitted sign-up data fail validation
InvalidSignUp(a) ==
    \/ ~validate_email(a.email)
    \/ ~validate_password(a.password)
    \/ ~validate_age(a.form.age) \/ ~validate_height(a.form.height)
    \/ ~validate_weight(a.form.weight) \/ ~validate_sex(a.form.sex)
    \/ ~validate_activity_level(a.form.activity_level) \/ ~validate_goal(a.form.goal)

\* C28: user_id becomes non-null only through a verify_password call that
\* returned a user or a sign-up whose insert_user succeeded; a non-null
\* user_id is always the id of an existing users row; a failed login, a
\* sign-up with mismatching passwords, invalid data or a duplicate email
\* leaves the session unchanged; the dashboard is rendered only while user_id
\* is non-null.
C28_SessionEntry ==
    /\ [](session_state.user_id # Nothing =>
            session_state.user_id[1] \in UserIdsOf(users))
    /\ [][(session_state.user_id = Nothing /\ session_state'.user_id # Nothing) =>
            \/ /\ FlowRuns({"Login"})
               /\ \E i \in 1..Len(users) :
                     /\ users[i].email = args'.email
                     /\ checkpw(args'.password, users[i].password)
                     /\ session_state'.user_id = Some(users[i].user_id)
            \/ /\ FlowRuns({"Create Account"})
               /\ Len(users') = Len(users) + 1
               /\ users'[Len(users')].email = args'.email
               /\ session_state'.user_id = Some(users'[Len(users')].user_id)]_vars
    /\ [][FlowRuns({"Login"}) =>
            ((\A i \in 1..Len(users) :
                 users[i].email # args'.email
                 \/ ~checkpw(args'.password, users[i].password))
             => exc' # NoError /\ session_state' = session_state)]_vars
    /\ [][FlowRuns({"Create Account"}) =>
            ((\/ args'.password # args'.confirm_password
              \/ InvalidSignUp(args')
              \/ args'.email \in EmailsOf(users))
             => exc' # NoError /\ session_state' = session_state /\ users' = users)]_vars
    /\ [][FlowRuns(DashboardFlows) => session_state.user_id # Nothing]_vars
    /\ [][FlowRuns(EntryFlows) => session_state.user_id = Nothing]_vars

\* a login with a stored email and a wrong password left the session empty
C28_Witness ==
    /\ pc = "returned" /\ op = "Login" /\ exc = "Invalid email or password"
    /\ args.email \in EmailsOf(users)
    /\ session_state.user_id = Nothing

\* a sign-up with a stored email was refused and left the session empty
C28_DuplicateWitness ==
    /\ pc = "returned" /\ op = "Create Account" /\ exc = ErrEmailExists
    /\ session_state.user_id = Nothing

\* a login set user_id to the id of the row verify_password returned
C28_LoginWitness ==
    /\ pc = "returned" /\ op = "Login" /\ exc = NoError
    /\ session_state.user_id # Nothing
    /\ users[session_state.user_id[1]].email = args.email

UserDataFields ==
    {"user_id", "email", "age", "height", "weight", "sex", "activity_level", "goal"}

\* C29: in every state of the web session user_data has no password field,
\* neither the plaintext nor the stored hash, whether the session was
\* established by login or by sign-up.
C29_NoPasswordInSession ==
    session_state.user_data # Nothing =>
        /\ "password" \notin DOMAIN session_state.user_data[1]
        /\ DOMAIN session_state.user_data[1] = UserDataFields
        /\ session_state.user_data[1].email \notin
              Passwords \cup {hashpw(p) : p \in Passwords}
        /\ session_state.user_data[1].sex \notin
              Passwords \cup {hashpw(p) : p \in Passwords}

\* a session established by login while the row holds a password hash
C29_Witness ==
    /\ pc = "returned" /\ op = "Login" /\ exc = NoError
    /\ session_state.user_data # Nothing
    /\ users[session_state.user_data[1].user_id].password = hashpw(args.password)

\* a session established by sign-up while the row holds a password hash
C29_SignUpWitness ==
    /\ pc = "returned" /\ op = "Create Account" /\ exc = NoError
    /\ session_state.user_data # Nothing
    /\ users[session_state.user_data[1].user_id].password = hashpw(args.password)

=============================================================================
